---- MODULE Spec2Model ----
(***************************************************************************)
(* Model of the request multiplexer of helmutkemper/dns (handler.go):      *)
(* ResolveMux.ServeDNS fans a query out to one goroutine per question,     *)
(* each with a muxWriter; the muxWriters are chained through `next` and    *)
(* talk over the unbuffered channels recurc and replyc.                    *)
(*                                                                         *)
(* Process 0 is the goroutine running ResolveMux.ServeDNS, process i in    *)
(* 1..N is the goroutine running serveMux for question i.  The muxWriter   *)
(* of question i has next = the muxWriter of question i-1 (nil for i = 1). *)
(* An unbuffered channel operation is a rendezvous: the receive action of  *)
(* the receiver also advances the sender that is blocked in the send.      *)
(*                                                                         *)
(* Three more parts of the package follow the mux, each with a             *)
(* specification of its own that leaves the variables of the others at     *)
(* rest: the table of ResolveMux (Handle, lookup: LookupSpec), the zone    *)
(* handler (Zone.ServeDNS, zone.go: ZoneSpec) and the locked record set    *)
(* (RRSet, typeRRSet.go: RRSetSpec).                                       *)
(***************************************************************************)
EXTENDS Integers, Sequences, FiniteSets, TLC

\* ---------------------------------------------------------------- bounds
MaxQuestions == 2

\* ------------------------------------------------------- program constants
NoError == 0
ServFail == 2
NXDomain == 3
TypeA == 1
TypeAAAA == 28

\* ------------------------------------------------------------ input sets
QuestionSet ==
    { [Name |-> "a.", Type |-> TypeA],
      [Name |-> "a.", Type |-> TypeAAAA],
      [Name |-> "b.", Type |-> TypeA] }

\* header of the incoming query: opcode and recursion-desired
Headers == { [OpCode |-> 0, RD |-> TRUE], [OpCode |-> 1, RD |-> FALSE] }

\* what the handler registered for a question does
Kinds == {"recursive", "local", "replier", "hang"}

\* records a local handler emits, in this order
LocalRecords == <<"x1", "x2">>

\* a Resource: the name, the time to live and the record it carries
Resource(n, ttl, r) == [Name |-> n, TTL |-> ttl, Rec |-> r]

\* a Resource of the mux inputs (the mux does not look at the TTL)
Res(n, r) == Resource(n, 0, r)

\* answers the upstream server may give ("c." is the name of no question)
UpstreamAnswers ==
    { << Res("a.", "u1"), Res("b.", "u2"), Res("a.", "u3") >>,
      << Res("b.", "u1"), Res("c.", "u2") >> }

NoMsg == [none |-> TRUE]

Message(op, rd, resp, aa, ra, rc, qs, an, ns, ar) ==
    [OpCode |-> op, RecursionDesired |-> rd, Response |-> resp,
     Authoritative |-> aa, RecursionAvailable |-> ra, RCode |-> rc,
     Questions |-> qs, Answers |-> an, Authorities |-> ns, Additionals |-> ar]

\* the replies the upstream server may give
UpstreamReplies ==
    { Message(0, TRUE, TRUE, FALSE, TRUE, NoError, <<>>, an,
              << Res("a.", "ns") >>, <<>>) : an \in UpstreamAnswers }

msgerr(m, e) == [msg |-> m, err |-> e]

NoMe == msgerr(NoMsg, "unset")

\* ------------------------------------------------------ pure functions

\* response(msg): a shallow copy of msg marked as a response
response(m) == [m EXCEPT !.Response = TRUE]

\* request(msg): a shallow copy of msg marked as a request
request(m) == [m EXCEPT !.Response = FALSE]

\* mergeRequests that keeps only the questions of to
mergeRequestsOwn(to, from) ==
    [to EXCEPT
        !.OpCode = IF from.OpCode > to.OpCode THEN from.OpCode ELSE to.OpCode,
        !.RecursionDesired = to.RecursionDesired \/ from.RecursionDesired]

\* mergeRequests(to, from): the new value of *to
mergeRequests(to, from) ==
    [to EXCEPT
        !.OpCode = IF from.OpCode > to.OpCode THEN from.OpCode ELSE to.OpCode,
        !.RecursionDesired = to.RecursionDesired \/ from.RecursionDesired,
        !.Questions = from.Questions \o to.Questions]

\* mergeResponses that ORs the authoritative flags
mergeResponsesOr(to, from) ==
    [to EXCEPT
        !.Authoritative = to.Authoritative \/ from.Authoritative,
        !.RecursionAvailable = to.RecursionAvailable \/ from.RecursionAvailable,
        !.RCode = IF from.RCode > to.RCode THEN from.RCode ELSE to.RCode,
        !.Questions = from.Questions \o to.Questions,
        !.Answers = from.Answers \o to.Answers,
        !.Authorities = from.Authorities \o to.Authorities,
        !.Additionals = from.Additionals \o to.Additionals]

\* mergeResponses that puts the sections of to before those of from
mergeResponsesSwapped(to, from) ==
    [to EXCEPT
        !.Authoritative = to.Authoritative /\ from.Authoritative,
        !.RecursionAvailable = to.RecursionAvailable \/ from.RecursionAvailable,
        !.RCode = IF from.RCode > to.RCode THEN from.RCode ELSE to.RCode,
        !.Questions = to.Questions \o from.Questions,
        !.Answers = to.Answers \o from.Answers,
        !.Authorities = to.Authorities \o from.Authorities,
        !.Additionals = to.Additionals \o from.Additionals]

\* mergeResponses(to, from): the new value of *to
mergeResponses(to, from) ==
    [to EXCEPT
        !.Authoritative = to.Authoritative /\ from.Authoritative,
        !.RecursionAvailable = to.RecursionAvailable \/ from.RecursionAvailable,
        !.RCode = IF from.RCode > to.RCode THEN from.RCode ELSE to.RCode,
        !.Questions = from.Questions \o to.Questions,
        !.Answers = from.Answers \o to.Answers,
        !.Authorities = from.Authorities \o to.Authorities,
        !.Additionals = from.Additionals \o to.Additionals]

\* the answers of s whose Name is n, in the order of s
RECURSIVE AnswersNamed(_, _)
AnswersNamed(s, n) ==
    IF s = <<>> THEN <<>>
    ELSE IF Head(s).Name = n
         THEN <<Head(s)>> \o AnswersNamed(Tail(s), n)
         ELSE AnswersNamed(Tail(s), n)

\* responseFor that does not filter the answers
responseForAll(q, res) == response(res)

\* responseFor(q, res)
responseFor(q, res) ==
    [response(res) EXCEPT !.Answers = AnswersNamed(res.Answers, q.Name)]


\* ---------------------------------------------------- messageWriter methods

\* Status(rcode)
Status(m, rc) == [m EXCEPT !.RCode = rc]

\* Authoritative(aa)
Authoritative(m, aa) == [m EXCEPT !.Authoritative = aa]

\* Recursion(ra)
Recursion(m, ra) == [m EXCEPT !.RecursionAvailable = ra]

\* Answer(name, ttl, record)
Answer(m, n, ttl, r) == [m EXCEPT !.Answers = Append(@, Resource(n, ttl, r))]

\* Authority(name, ttl, record)
Authority(m, n, ttl, r) ==
    [m EXCEPT !.Authorities = Append(@, Resource(n, ttl, r))]

\* ------------------------------------------------------------------ state
VARIABLES
    questions,    \* r.Questions of the incoming query
    header,       \* opcode and recursion-desired of the incoming query
    kind,         \* kind[i]: what the handler looked up for question i does
    pc,           \* pc[0]: position of ResolveMux.ServeDNS; pc[i]: of goroutine i
    wmsg,         \* wmsg[i]: messageWriter.msg of muxWriter i
    lmsg,         \* lmsg[i]: the local msg of the running Recur or Reply of i
    me,           \* me[p]: the local me of process p
    nextOK,       \* nextOK[i]: the local nextOK of Recur
    caller,       \* caller[i]: who called the running Reply: handler or finish
    recurcClosed, \* recurcClosed[i]: recurc of muxWriter i is closed
    replycClosed, \* replycClosed[i]: replyc of muxWriter i is closed
    replycNil,    \* replycNil[i]: field replyc of the muxWriter *muxw is nil
    fault,        \* the panic that ended the program, or "none"
    cancelled,    \* ctx is cancelled
    outerRecurs,  \* number of calls of Recur on the outer writer
    outerReplies, \* number of calls of Reply on the outer writer
    muxRequest,   \* the request ServeDNS received on recurc, or NoMsg
    upstream,     \* the msgerr the outer Recur returned, or NoMe
    muxReply,     \* the msgerr ServeDNS received on replyc, or NoMe
    recurCalls,   \* recurCalls[i]: number of calls of Recur by handler i
    recurResult,  \* recurResult[i]: what Recur returned to handler i, or NoMe
    subReply,     \* subReply[i]: the replies muxWriter i sent on its replyc
    replyCalls,   \* replyCalls[i]: number of calls of Reply on muxWriter i
    tbl,          \* ResolveMux.tbl: the entries Handle registered, in order
    lookupRet,    \* the last call of lookup: its question and its result
    zone,         \* the Zone: Origin, TTL and SOA
    query,        \* the Query r that Zone.ServeDNS is serving
    zmsg,         \* the message of the writer w of Zone.ServeDNS
    zpc,          \* position of Zone.ServeDNS: "idle", "loop", "end", "done"
    zi,           \* index of the question the loop of Zone.ServeDNS is at
    found,        \* the local found of Zone.ServeDNS
    zrrs,         \* the local rrs of Zone.ServeDNS and the range over it
    elm,          \* RRSet.m: key -> Type -> records, or the nil map
    init,         \* RRSet.init
    l,            \* RRSet.l: the caller that holds the lock, or 0
    rpc,          \* rpc[c]: position of caller c in its RRSet operation
    call,         \* call[c]: the RRSet operation of caller c and its arguments
    ret,          \* ret[c]: what the last GetKey or Len of caller c returned
    before,       \* RRSet.m at the moment the lock was last taken
    hooks,        \* the hook fields of the RRSet that are not nil
    hooklog,      \* the calls the hooks have received, in order
    cjob,         \* the value handed to the wire codec
    cout,         \* what packing it returned
    cback,        \* what unpacking returned
    cpc,          \* position of the codec run
    skind,        \* the session: "stream" or "packet"
    inflight,     \* the results of the session.do goroutines not yet received
    rbuf,         \* streamSession.rbuf, as stored in the session value
    reads,        \* what the calls of Read have returned, in order
    recvd,        \* what session.recv has received, in order
    writes        \* the buffers handed to Write with what it returned

\* the variables of the mux, fault apart
muxvars == <<questions, header, kind, pc, wmsg, lmsg, me, nextOK, caller,
             recurcClosed, replycClosed, replycNil, cancelled,
             outerRecurs, outerReplies, muxRequest, upstream, muxReply,
             recurCalls, recurResult, subReply, replyCalls>>

lookupvars == <<tbl, lookupRet>>
zonevars == <<zone, query, zmsg, zpc, zi, found>>
rrvars == <<elm, init, l, rpc, call, ret, before, hooks, hooklog>>

\* the variables outside the mux
codecvars == <<cjob, cout, cback, cpc>>
streamvars == <<skind, inflight, rbuf, reads, recvd, writes>>
wirevars == <<codecvars, streamvars>>
libvars == <<lookupvars, zonevars, zrrs, rrvars, wirevars>>

vars == <<muxvars, fault, libvars>>

N == Len(questions)
Writers == 1..N

\* the callers of the RRSet operations
Callers == {1, 2}

\* no lookup was made, no Zone is serving, no call has returned a value
NoLookup == [none |-> TRUE]
NoZone == [none |-> TRUE]
NoQuery == [none |-> TRUE]
NoRrs == [none |-> TRUE]
NoCall == [op |-> "none"]
NoRet == [none |-> TRUE]

\* the nil map, and the map make() returns: reading the nil map finds no
\* key, writing to it panics
NilMap == [nil |-> TRUE, kv |-> <<>>]
MakeMap == [nil |-> FALSE, kv |-> <<>>]

\* the wire codec is given nothing, and no session is open
NoJob == [kind |-> "none"]
CodecIdle == cjob = NoJob /\ cout = NoJob /\ cback = NoJob /\ cpc = "idle"
StreamIdle ==
    /\ skind = "none" /\ inflight = <<>> /\ rbuf = <<>>
    /\ reads = <<>> /\ recvd = <<>> /\ writes = <<>>
WireIdle == CodecIdle /\ StreamIdle

\* a ResolveMux with an empty table that has looked nothing up
LookupIdle == tbl = <<>> /\ lookupRet = NoLookup

\* no Zone is serving a query
ZoneIdle ==
    /\ zone = NoZone /\ query = NoQuery /\ zmsg = NoMsg
    /\ zpc = "idle" /\ zi = 0 /\ found = FALSE
    /\ zrrs = NoRrs

\* the zero value of RRSet, with no call under way
RRSetIdle ==
    /\ elm = NilMap /\ init = FALSE /\ l = 0
    /\ rpc = [c \in Callers |-> "idle"]
    /\ call = [c \in Callers |-> NoCall]
    /\ ret = [c \in Callers |-> NoRet]
    /\ before = NilMap
    /\ hooks = {} /\ hooklog = <<>>

\* no ResolveMux is serving a query
MuxIdle ==
    /\ questions = <<>>
    /\ header = [OpCode |-> 0, RD |-> FALSE]
    /\ kind = <<>>
    /\ pc = [p \in {0} |-> "idle"]
    /\ wmsg = <<>> /\ lmsg = <<>>
    /\ me = [p \in {0} |-> NoMe]
    /\ nextOK = <<>> /\ caller = <<>>
    /\ recurcClosed = <<>> /\ replycClosed = <<>> /\ replycNil = <<>>
    /\ cancelled = FALSE
    /\ outerRecurs = 0 /\ outerReplies = 0
    /\ muxRequest = NoMsg /\ upstream = NoMe /\ muxReply = NoMe
    /\ recurCalls = <<>> /\ recurResult = <<>>
    /\ subReply = <<>> /\ replyCalls = <<>>

\* all sequences over S of length 0..n
SeqsUpTo(S, n) == UNION { [1..k -> S] : k \in 0..n }

Init ==
    /\ questions \in SeqsUpTo(QuestionSet, MaxQuestions)
    /\ header \in Headers
    /\ kind \in [1..Len(questions) -> Kinds]
    /\ pc = [p \in 0..Len(questions) |-> IF p = 0 THEN "m_spawn" ELSE "idle"]
    /\ wmsg = [i \in 1..Len(questions) |-> NoMsg]
    /\ lmsg = [i \in 1..Len(questions) |-> NoMsg]
    /\ me = [p \in 0..Len(questions) |-> NoMe]
    /\ nextOK = [i \in 1..Len(questions) |-> FALSE]
    /\ caller = [i \in 1..Len(questions) |-> "none"]
    /\ recurcClosed = [i \in 1..Len(questions) |-> FALSE]
    /\ replycClosed = [i \in 1..Len(questions) |-> FALSE]
    /\ replycNil = [i \in 1..Len(questions) |-> FALSE]
    /\ fault = "none"
    /\ cancelled = FALSE
    /\ outerRecurs = 0
    /\ outerReplies = 0
    /\ muxRequest = NoMsg
    /\ upstream = NoMe
    /\ muxReply = NoMe
    /\ recurCalls = [i \in 1..Len(questions) |-> 0]
    /\ recurResult = [i \in 1..Len(questions) |-> NoMe]
    /\ subReply = [i \in 1..Len(questions) |-> <<>>]
    /\ replyCalls = [i \in 1..Len(questions) |-> 0]
    /\ LookupIdle /\ ZoneIdle /\ RRSetIdle /\ WireIdle

\* the message of the incoming query restricted to question i (muxm)
muxm(i) ==
    Message(header.OpCode, header.RD, FALSE, FALSE, FALSE, NoError,
            <<questions[i]>>, <<>>, <<>>, <<>>)

Running == fault = "none"


\* ------------------------------------------------------------- channels
\* A channel is named <<"recurc", i>> or <<"replyc", i>>: a field of
\* muxWriter i.  A process blocked in a send is described by the channel it
\* sends on, the value it sends and the position it continues at.

NoChan == <<"none", 0>>

\* the channel that process p is blocked sending on
SendChan(p) ==
    IF p = 0
    THEN CASE pc[0] = "m_sendRecur" -> <<"recurc", N>>
           [] pc[0] = "m_sendErr" -> <<"replyc", N>>
           [] OTHER -> NoChan
    ELSE CASE pc[p] = "rc_send" -> <<"recurc", p>>
           [] pc[p] = "rc_fwd" -> <<"recurc", p - 1>>
           [] pc[p] = "rp_relaySend" -> <<"recurc", p>>
           [] pc[p] = "rp_relayFwd" -> <<"recurc", p - 1>>
           [] pc[p] = "rp_sendReply" -> <<"replyc", p>>
           [] pc[p] = "rp_fwdFinal" -> <<"replyc", p - 1>>
           [] OTHER -> NoChan

\* the value that process p is sending
SendVal(p) ==
    IF p # 0 /\ pc[p] \in {"rc_send", "rp_sendReply"}
    THEN msgerr(lmsg[p], "nil")
    ELSE me[p]

\* the position of process p after its send
SendNext(p) ==
    CASE pc[p] = "m_sendRecur" -> "m_recvReply"
      [] pc[p] = "m_sendErr" -> "m_done"
      [] pc[p] = "rc_send" -> "rc_recv"
      [] pc[p] = "rc_fwd" -> "rc_ret"
      [] pc[p] = "rp_relaySend" -> "rp_relayRecv"
      [] pc[p] = "rp_relayFwd" -> "rp_recvReply"
      [] pc[p] = "rp_sendReply" -> "rp_recvFinal"
      [] pc[p] = "rp_fwdFinal" -> "rp_closeReply"

\* the processes blocked sending on channel c
Senders(c) == { p \in 0..N : SendChan(p) = c }

\* the positions of receiver r and sender s after a rendezvous
Rendezvous(r, to, s) == [pc EXCEPT ![r] = to, ![s] = SendNext(s)]

\* the replies sent so far, after sender s has sent v on a replyc
Sent(s, v) ==
    IF s # 0 /\ pc[s] = "rp_sendReply"
    THEN [subReply EXCEPT ![s] = Append(@, v.msg)]
    ELSE subReply

\* ----------------------------------------------------- ResolveMux.ServeDNS

\* one iteration of the loop: the muxWriter of the next question and its
\* goroutine; after the loop, muxw is the last muxWriter, or nil
Spawn ==
    /\ Running /\ pc[0] = "m_spawn"
    /\ IF \E i \in Writers : pc[i] = "idle"
       THEN LET i == CHOOSE j \in Writers :
                        pc[j] = "idle" /\ \A k \in 1..(j - 1) : pc[k] # "idle"
            IN /\ wmsg' = [wmsg EXCEPT ![i] = response(muxm(i))]
               /\ pc' = [pc EXCEPT ![i] = "h_start",
                                   ![0] = IF i = N THEN "m_recvRecur" ELSE @]
               /\ UNCHANGED fault
       ELSE \* no question: muxw is nil, muxw.recurc dereferences it
            /\ fault' = "nil dereference"
            /\ UNCHANGED <<wmsg, pc>>
    /\ UNCHANGED <<libvars, questions, header, kind, lmsg, me, nextOK, caller,
                   recurcClosed, replycClosed, replycNil, cancelled,
                   outerRecurs, outerReplies, muxRequest, upstream, muxReply,
                   recurCalls, recurResult, subReply, replyCalls>>

\* MuxRecvRecur with the test of ok inverted
MuxRecvRecurInverted ==
    /\ Running /\ pc[0] = "m_recvRecur"
    /\ \/ \E s \in Senders(<<"recurc", N>>) :
            /\ me' = [me EXCEPT ![0] = SendVal(s)]
            /\ muxRequest' = SendVal(s).msg
            /\ pc' = Rendezvous(0, "m_recvReply", s)
       \/ /\ recurcClosed[N]
          /\ pc' = [pc EXCEPT ![0] = "m_recur"]
          /\ UNCHANGED <<me, muxRequest>>
    /\ UNCHANGED <<libvars, questions, header, kind, wmsg, lmsg, nextOK, caller,
                   recurcClosed, replycClosed, replycNil, fault, cancelled,
                   outerRecurs, outerReplies, upstream, muxReply,
                   recurCalls, recurResult, subReply, replyCalls>>

\* if me, ok := <-muxw.recurc; ok
MuxRecvRecur ==
    /\ Running /\ pc[0] = "m_recvRecur"
    /\ \/ \E s \in Senders(<<"recurc", N>>) :
            /\ me' = [me EXCEPT ![0] = SendVal(s)]
            /\ muxRequest' = SendVal(s).msg
            /\ pc' = Rendezvous(0, "m_recur", s)
       \/ /\ recurcClosed[N]
          /\ pc' = [pc EXCEPT ![0] = "m_recvReply"]
          /\ UNCHANGED <<me, muxRequest>>
    /\ UNCHANGED <<libvars, questions, header, kind, wmsg, lmsg, nextOK, caller,
                   recurcClosed, replycClosed, replycNil, fault, cancelled,
                   outerRecurs, outerReplies, upstream, muxReply,
                   recurCalls, recurResult, subReply, replyCalls>>

\* what Recur on the outer writer may return: the reply of the upstream
\* server or an error; the error of the context once it is cancelled
OuterRecurResults ==
    IF cancelled
    THEN { msgerr(NoMsg, "context canceled") }
    ELSE { msgerr(m, "nil") : m \in UpstreamReplies }
            \cup { msgerr(NoMsg, "upstream error") }

\* writeMessage(w, me.msg); msg, err := w.Recur(ctx)
MuxRecur ==
    /\ Running /\ pc[0] = "m_recur"
    /\ \E res \in OuterRecurResults :
          /\ upstream' = res
          /\ me' = [me EXCEPT ![0] = res]
    /\ outerRecurs' = outerRecurs + 1
    /\ pc' = [pc EXCEPT ![0] = "m_sendRecur"]
    /\ UNCHANGED <<libvars, questions, header, kind, wmsg, lmsg, nextOK, caller,
                   recurcClosed, replycClosed, replycNil, fault, cancelled,
                   outerReplies, muxRequest, muxReply,
                   recurCalls, recurResult, subReply, replyCalls>>

\* me := <-muxw.replyc
MuxRecvReply ==
    /\ Running /\ pc[0] = "m_recvReply"
    /\ \E s \in Senders(<<"replyc", N>>) :
          /\ me' = [me EXCEPT ![0] = SendVal(s)]
          /\ muxReply' = SendVal(s)
          /\ subReply' = Sent(s, SendVal(s))
          /\ pc' = Rendezvous(0, "m_reply", s)
    /\ UNCHANGED <<libvars, questions, header, kind, wmsg, lmsg, nextOK, caller,
                   recurcClosed, replycClosed, replycNil, fault, cancelled,
                   outerRecurs, outerReplies, muxRequest, upstream,
                   recurCalls, recurResult, replyCalls>>

\* what Reply on the outer writer may return
OuterReplyErrors == {"nil", "reply error"}

\* writeMessage(w, me.msg); if err := w.Reply(ctx); err != nil
MuxReply ==
    /\ Running /\ pc[0] = "m_reply"
    /\ outerReplies' = outerReplies + 1
    /\ \E err \in OuterReplyErrors :
          IF err # "nil"
          THEN /\ me' = [me EXCEPT ![0] = msgerr(NoMsg, err)]
               /\ pc' = [pc EXCEPT ![0] = "m_sendErr"]
          ELSE /\ me' = [me EXCEPT ![0] = NoMe]
               /\ pc' = [pc EXCEPT ![0] = "m_done"]
    /\ UNCHANGED <<libvars, questions, header, kind, wmsg, lmsg, nextOK, caller,
                   recurcClosed, replycClosed, replycNil, fault, cancelled,
                   outerRecurs, muxRequest, upstream, muxReply,
                   recurCalls, recurResult, subReply, replyCalls>>


\* --------------------------------------------------------- muxWriter.Recur

\* the call w.Recur(ctx) up to its first channel operation
RecurEntry(i) ==
    /\ recurCalls' = [recurCalls EXCEPT ![i] = @ + 1]
    /\ lmsg' = [lmsg EXCEPT ![i] = request(wmsg[i])]
    /\ nextOK' = [nextOK EXCEPT ![i] = FALSE]
    /\ pc' = [pc EXCEPT ![i] = IF i > 1 THEN "rc_recvNext" ELSE "rc_send"]

\* if me, nextOK = <-w.next.recurc; nextOK { mergeRequests(msg, me.msg) }
RecurRecvNext(i) ==
    /\ Running /\ pc[i] = "rc_recvNext"
    /\ \/ \E s \in Senders(<<"recurc", i - 1>>) :
            /\ lmsg' = [lmsg EXCEPT ![i] = mergeRequests(@, SendVal(s).msg)]
            /\ nextOK' = [nextOK EXCEPT ![i] = TRUE]
            /\ pc' = Rendezvous(i, "rc_send", s)
       \/ /\ recurcClosed[i - 1]
          /\ pc' = [pc EXCEPT ![i] = "rc_send"]
          /\ UNCHANGED <<lmsg, nextOK>>
    /\ UNCHANGED <<libvars, questions, header, kind, wmsg, me, caller,
                   recurcClosed, replycClosed, replycNil, fault, cancelled,
                   outerRecurs, outerReplies, muxRequest, upstream, muxReply,
                   recurCalls, recurResult, subReply, replyCalls>>

\* me := <-w.recurc (after w.recurc <- msgerr{msg, nil})
RecurRecv(i) ==
    /\ Running /\ pc[i] = "rc_recv"
    /\ \E s \in Senders(<<"recurc", i>>) :
          /\ me' = [me EXCEPT ![i] = SendVal(s)]
          /\ pc' = Rendezvous(i, IF nextOK[i] THEN "rc_fwd" ELSE "rc_ret", s)
    /\ UNCHANGED <<libvars, questions, header, kind, wmsg, lmsg, nextOK, caller,
                   recurcClosed, replycClosed, replycNil, fault, cancelled,
                   outerRecurs, outerReplies, muxRequest, upstream, muxReply,
                   recurCalls, recurResult, subReply, replyCalls>>

\* what Recur returns for the msgerr m it received
RecurValue(i, m) ==
    IF m.err # "nil"
    THEN msgerr(NoMsg, m.err)
    ELSE msgerr(responseFor(wmsg[i].Questions[1], m.msg), "nil")

\* if me.err != nil { return nil, me.err }; return responseFor(...), nil
RecurReturn(i) ==
    /\ Running /\ pc[i] = "rc_ret"
    /\ recurResult' = [recurResult EXCEPT ![i] = RecurValue(i, me[i])]
    /\ me' = [me EXCEPT ![i] = NoMe]
    /\ lmsg' = [lmsg EXCEPT ![i] = NoMsg]
    /\ nextOK' = [nextOK EXCEPT ![i] = FALSE]
    /\ pc' = [pc EXCEPT ![i] = "h_copy"]
    /\ UNCHANGED <<libvars, questions, header, kind, wmsg, caller,
                   recurcClosed, replycClosed, replycNil, fault, cancelled,
                   outerRecurs, outerReplies, muxRequest, upstream, muxReply,
                   recurCalls, subReply, replyCalls>>

\* --------------------------------------------------------- muxWriter.Reply

\* Reply that does not drain w.next.recurc before it waits on w.next.replyc
ReplyEntryNoDrain(i, who) ==
    /\ replyCalls' = [replyCalls EXCEPT ![i] = @ + 1]
    /\ caller' = [caller EXCEPT ![i] = who]
    /\ lmsg' = [lmsg EXCEPT ![i] = response(wmsg[i])]
    /\ pc' = [pc EXCEPT ![i] = IF i > 1 THEN "rp_recvReply" ELSE "rp_closeRecur"]

\* the call w.Reply(ctx) by who, up to its first channel operation
ReplyEntry(i, who) ==
    /\ replyCalls' = [replyCalls EXCEPT ![i] = @ + 1]
    /\ caller' = [caller EXCEPT ![i] = who]
    /\ lmsg' = [lmsg EXCEPT ![i] = response(wmsg[i])]
    /\ pc' = [pc EXCEPT ![i] = IF i > 1 THEN "rp_recvNext" ELSE "rp_closeRecur"]

\* if me, ok := <-w.next.recurc; ok { w.recurc <- me ...
ReplyRecvNext(i) ==
    /\ Running /\ pc[i] = "rp_recvNext"
    /\ \/ \E s \in Senders(<<"recurc", i - 1>>) :
            /\ me' = [me EXCEPT ![i] = SendVal(s)]
            /\ pc' = Rendezvous(i, "rp_relaySend", s)
       \/ /\ recurcClosed[i - 1]
          /\ pc' = [pc EXCEPT ![i] = "rp_recvReply"]
          /\ UNCHANGED me
    /\ UNCHANGED <<libvars, questions, header, kind, wmsg, lmsg, nextOK, caller,
                   recurcClosed, replycClosed, replycNil, fault, cancelled,
                   outerRecurs, outerReplies, muxRequest, upstream, muxReply,
                   recurCalls, recurResult, subReply, replyCalls>>

\* me = <-w.recurc (after w.recurc <- me)
ReplyRelayRecv(i) ==
    /\ Running /\ pc[i] = "rp_relayRecv"
    /\ \E s \in Senders(<<"recurc", i>>) :
          /\ me' = [me EXCEPT ![i] = SendVal(s)]
          /\ pc' = Rendezvous(i, "rp_relayFwd", s)
    /\ UNCHANGED <<libvars, questions, header, kind, wmsg, lmsg, nextOK, caller,
                   recurcClosed, replycClosed, replycNil, fault, cancelled,
                   outerRecurs, outerReplies, muxRequest, upstream, muxReply,
                   recurCalls, recurResult, subReply, replyCalls>>

\* me, ok := <-w.next.replyc; if !ok || me.err != nil { panic("impossible") }
\* mergeResponses(msg, me.msg)
ReplyRecvReply(i) ==
    /\ Running /\ pc[i] = "rp_recvReply"
    /\ \/ \E s \in Senders(<<"replyc", i - 1>>) :
            IF SendVal(s).err # "nil"
            THEN /\ fault' = "impossible"
                 /\ pc' = [pc EXCEPT ![s] = SendNext(s)]
                 /\ UNCHANGED <<lmsg, me, subReply>>
            ELSE /\ lmsg' = [lmsg EXCEPT ![i] = mergeResponses(@, SendVal(s).msg)]
                 /\ me' = [me EXCEPT ![i] = NoMe]
                 /\ subReply' = Sent(s, SendVal(s))
                 /\ pc' = Rendezvous(i, "rp_closeRecur", s)
                 /\ UNCHANGED fault
       \/ /\ replycClosed[i - 1]
          /\ fault' = "impossible"
          /\ UNCHANGED <<lmsg, me, subReply, pc>>
    /\ UNCHANGED <<libvars, questions, header, kind, wmsg, nextOK, caller,
                   recurcClosed, replycClosed, replycNil, cancelled,
                   outerRecurs, outerReplies, muxRequest, upstream, muxReply,
                   recurCalls, recurResult, replyCalls>>

\* close(w.recurc)
ReplyCloseRecur(i) ==
    /\ Running /\ pc[i] = "rp_closeRecur"
    /\ IF recurcClosed[i]
       THEN /\ fault' = "close of closed channel"
            /\ UNCHANGED <<recurcClosed, pc>>
       ELSE /\ recurcClosed' = [recurcClosed EXCEPT ![i] = TRUE]
            /\ pc' = [pc EXCEPT ![i] = "rp_sendReply"]
            /\ UNCHANGED fault
    /\ UNCHANGED <<libvars, questions, header, kind, wmsg, lmsg, me, nextOK, caller,
                   replycClosed, replycNil, cancelled,
                   outerRecurs, outerReplies, muxRequest, upstream, muxReply,
                   recurCalls, recurResult, subReply, replyCalls>>

\* me := <-w.replyc (after w.replyc <- msgerr{msg, nil})
ReplyRecvFinal(i) ==
    /\ Running /\ pc[i] = "rp_recvFinal"
    /\ \E s \in Senders(<<"replyc", i>>) :
          /\ me' = [me EXCEPT ![i] = SendVal(s)]
          /\ pc' = Rendezvous(i, IF i > 1 THEN "rp_fwdFinal" ELSE "rp_closeReply", s)
    /\ UNCHANGED <<libvars, questions, header, kind, wmsg, lmsg, nextOK, caller,
                   recurcClosed, replycClosed, replycNil, fault, cancelled,
                   outerRecurs, outerReplies, muxRequest, upstream, muxReply,
                   recurCalls, recurResult, subReply, replyCalls>>

\* w.replyc = nil, with the value receiver (w muxWriter): the assignment
\* changes the copy that Reply works on, the field of *muxw keeps its value
ClearReplyc(f, i) == f

\* close(w.replyc); w.replyc = nil; return me.err
ReplyReturn(i) ==
    /\ Running /\ pc[i] = "rp_closeReply"
    /\ IF replycClosed[i]
       THEN /\ fault' = "close of closed channel"
            /\ UNCHANGED <<replycClosed, replycNil, me, lmsg, caller, pc>>
       ELSE /\ replycClosed' = [replycClosed EXCEPT ![i] = TRUE]
            /\ replycNil' = ClearReplyc(replycNil, i)
            /\ me' = [me EXCEPT ![i] = NoMe]
            /\ lmsg' = [lmsg EXCEPT ![i] = NoMsg]
            /\ caller' = [caller EXCEPT ![i] = "none"]
            /\ pc' = [pc EXCEPT ![i] =
                        IF caller[i] = "handler" THEN "h_ret" ELSE "done"]
            /\ UNCHANGED fault
    /\ UNCHANGED <<libvars, questions, header, kind, wmsg, nextOK,
                   recurcClosed, cancelled,
                   outerRecurs, outerReplies, muxRequest, upstream, muxReply,
                   recurCalls, recurResult, subReply, replyCalls>>

\* serveMux: w.finish(ctx) after the handler returned:
\* if w.replyc != nil { w.Reply(ctx) }
Finish(i) ==
    /\ Running /\ pc[i] = "h_ret"
    /\ IF replycNil[i]
       THEN /\ pc' = [pc EXCEPT ![i] = "done"]
            /\ UNCHANGED <<replyCalls, caller, lmsg>>
       ELSE ReplyEntry(i, "finish")
    /\ UNCHANGED <<libvars, questions, header, kind, wmsg, me, nextOK,
                   recurcClosed, replycClosed, replycNil, fault, cancelled,
                   outerRecurs, outerReplies, muxRequest, upstream, muxReply,
                   recurCalls, recurResult, subReply>>


\* --------------------------------------------------------------- handlers

\* recursiveHandler: msg, err := w.Recur(ctx)
RecursiveRecur(i) ==
    /\ Running /\ pc[i] = "h_start" /\ kind[i] = "recursive"
    /\ RecurEntry(i)
    /\ UNCHANGED <<libvars, questions, header, kind, wmsg, me, caller,
                   recurcClosed, replycClosed, replycNil, fault, cancelled,
                   outerRecurs, outerReplies, muxRequest, upstream, muxReply,
                   recurResult, subReply, replyCalls>>

\* the records of s appended to a section
RECURSIVE AppendAll(_, _)
AppendAll(to, s) ==
    IF s = <<>> THEN to ELSE AppendAll(Append(to, Head(s)), Tail(s))

\* recursiveHandler that does not set ServFail when Recur fails
RecursiveWriteNoFail(m, res) ==
    IF res.err # "nil"
    THEN m
    ELSE [Recursion(Authoritative(Status(m, res.msg.RCode),
                                  res.msg.Authoritative),
                    res.msg.RecursionAvailable)
            EXCEPT !.Answers = AppendAll(@, res.msg.Answers),
                   !.Authorities = AppendAll(@, res.msg.Authorities),
                   !.Additionals = AppendAll(@, res.msg.Additionals)]

\* recursiveHandler after Recur returned res: the new message of the writer
RecursiveWrite(m, res) ==
    IF res.err # "nil"
    THEN Status(m, ServFail)
    ELSE [Recursion(Authoritative(Status(m, res.msg.RCode),
                                  res.msg.Authoritative),
                    res.msg.RecursionAvailable)
            EXCEPT !.Answers = AppendAll(@, res.msg.Answers),
                   !.Authorities = AppendAll(@, res.msg.Authorities),
                   !.Additionals = AppendAll(@, res.msg.Additionals)]

\* recursiveHandler: the statements after w.Recur(ctx), and the return
RecursiveCopy(i) ==
    /\ Running /\ pc[i] = "h_copy"
    /\ wmsg' = [wmsg EXCEPT ![i] = RecursiveWrite(@, recurResult[i])]
    /\ pc' = [pc EXCEPT ![i] = "h_ret"]
    /\ UNCHANGED <<libvars, questions, header, kind, lmsg, me, nextOK, caller,
                   recurcClosed, replycClosed, replycNil, fault, cancelled,
                   outerRecurs, outerReplies, muxRequest, upstream, muxReply,
                   recurCalls, recurResult, subReply, replyCalls>>

\* a handler that answers from its own records: w.Authoritative(true)
LocalStart(i) ==
    /\ Running /\ pc[i] = "h_start" /\ kind[i] = "local"
    /\ wmsg' = [wmsg EXCEPT ![i] = Authoritative(@, TRUE)]
    /\ pc' = [pc EXCEPT ![i] = "h_local"]
    /\ UNCHANGED <<libvars, questions, header, kind, lmsg, me, nextOK, caller,
                   recurcClosed, replycClosed, replycNil, fault, cancelled,
                   outerRecurs, outerReplies, muxRequest, upstream, muxReply,
                   recurCalls, recurResult, subReply, replyCalls>>

\* a local handler emits its next record: w.Answer(q.Name, ttl, rr)
LocalAnswer(i) ==
    /\ Running /\ pc[i] = "h_local"
    /\ Len(wmsg[i].Answers) < Len(LocalRecords)
    /\ wmsg' = [wmsg EXCEPT ![i] =
                  Answer(@, questions[i].Name, 0,
                         LocalRecords[Len(@.Answers) + 1])]
    /\ UNCHANGED <<libvars, questions, header, kind, pc, lmsg, me, nextOK, caller,
                   recurcClosed, replycClosed, replycNil, fault, cancelled,
                   outerRecurs, outerReplies, muxRequest, upstream, muxReply,
                   recurCalls, recurResult, subReply, replyCalls>>

\* a local handler returns; with nothing found it sets NXDomain and an
\* authority record first
LocalReturn(i) ==
    /\ Running /\ pc[i] = "h_local"
    /\ wmsg' = [wmsg EXCEPT ![i] =
                  IF @.Answers = <<>>
                  THEN Authority(Status(@, NXDomain), "origin.", 0, "soa")
                  ELSE @]
    /\ pc' = [pc EXCEPT ![i] = "h_ret"]
    /\ UNCHANGED <<libvars, questions, header, kind, lmsg, me, nextOK, caller,
                   recurcClosed, replycClosed, replycNil, fault, cancelled,
                   outerRecurs, outerReplies, muxRequest, upstream, muxReply,
                   recurCalls, recurResult, subReply, replyCalls>>

\* a handler that calls w.Reply(ctx) itself: first it answers one record
ReplierAnswer(i) ==
    /\ Running /\ pc[i] = "h_start" /\ kind[i] = "replier"
    /\ wmsg' = [wmsg EXCEPT ![i] = Answer(@, questions[i].Name, 0, LocalRecords[1])]
    /\ pc' = [pc EXCEPT ![i] = "h_reply"]
    /\ UNCHANGED <<libvars, questions, header, kind, lmsg, me, nextOK, caller,
                   recurcClosed, replycClosed, replycNil, fault, cancelled,
                   outerRecurs, outerReplies, muxRequest, upstream, muxReply,
                   recurCalls, recurResult, subReply, replyCalls>>

\* then it calls w.Reply(ctx), and returns when Reply returns
ReplierReply(i) ==
    /\ Running /\ pc[i] = "h_reply"
    /\ ReplyEntry(i, "handler")
    /\ UNCHANGED <<libvars, questions, header, kind, wmsg, me, nextOK,
                   recurcClosed, replycClosed, replycNil, fault, cancelled,
                   outerRecurs, outerReplies, muxRequest, upstream, muxReply,
                   recurCalls, recurResult, subReply>>

\* the context of the query is cancelled
Cancel ==
    /\ Running /\ ~cancelled
    /\ cancelled' = TRUE
    /\ UNCHANGED <<libvars, questions, header, kind, pc, wmsg, lmsg, me, nextOK, caller,
                   recurcClosed, replycClosed, replycNil, fault,
                   outerRecurs, outerReplies, muxRequest, upstream, muxReply,
                   recurCalls, recurResult, subReply, replyCalls>>

\* ------------------------------------------------------------ the program

WriterStep(i) ==
    \/ RecursiveRecur(i)
    \/ RecurRecvNext(i)
    \/ RecurRecv(i)
    \/ RecurReturn(i)
    \/ RecursiveCopy(i)
    \/ LocalStart(i)
    \/ LocalAnswer(i)
    \/ LocalReturn(i)
    \/ ReplierAnswer(i)
    \/ ReplierReply(i)
    \/ Finish(i)
    \/ ReplyRecvNext(i)
    \/ ReplyRelayRecv(i)
    \/ ReplyRecvReply(i)
    \/ ReplyCloseRecur(i)
    \/ ReplyRecvFinal(i)
    \/ ReplyReturn(i)

MuxStep ==
    \/ Spawn
    \/ MuxRecvRecur
    \/ MuxRecur
    \/ MuxRecvReply
    \/ MuxReply

Next ==
    \/ Spawn
    \/ MuxRecvRecur
    \/ MuxRecur
    \/ MuxRecvReply
    \/ MuxReply
    \/ \E i \in Writers : RecursiveRecur(i)
    \/ \E i \in Writers : RecurRecvNext(i)
    \/ \E i \in Writers : RecurRecv(i)
    \/ \E i \in Writers : RecurReturn(i)
    \/ \E i \in Writers : RecursiveCopy(i)
    \/ \E i \in Writers : LocalStart(i)
    \/ \E i \in Writers : LocalAnswer(i)
    \/ \E i \in Writers : LocalReturn(i)
    \/ \E i \in Writers : ReplierAnswer(i)
    \/ \E i \in Writers : ReplierReply(i)
    \/ \E i \in Writers : Finish(i)
    \/ \E i \in Writers : ReplyRecvNext(i)
    \/ \E i \in Writers : ReplyRelayRecv(i)
    \/ \E i \in Writers : ReplyRecvReply(i)
    \/ \E i \in Writers : ReplyCloseRecur(i)
    \/ \E i \in Writers : ReplyRecvFinal(i)
    \/ \E i \in Writers : ReplyReturn(i)

Spec == Init /\ [][Next]_vars

\* every goroutine that can take a step eventually takes one
Fairness ==
    /\ WF_vars(MuxStep)
    /\ \A i \in 1..MaxQuestions : WF_vars(i \in Writers /\ WriterStep(i))

FairSpec == Spec /\ Fairness

\* the same program with a context that may be cancelled at any moment
CancelNext == Next \/ Cancel

CancelSpec == Init /\ [][CancelNext]_vars

CancelFairSpec == CancelSpec /\ Fairness


\* ------------------------------------------------------------ properties

\* the sub-writers whose handler called Recur
Recursers == { i \in Writers : recurCalls[i] > 0 }

\* ServeDNS is past its receive on muxw.recurc and what follows from it
MuxPastRecur == pc[0] \in {"m_recvReply", "m_reply", "m_sendErr", "m_done"}

\* ServeDNS has received the merged reply of the chain
MuxHasReply == muxReply # NoMe

\* C1: ServeDNS calls Recur on the outer writer at most once per query,
\* only when some sub-writer called Recur, and once it is past the receive
\* on recurc it has called it exactly once if a sub-writer called Recur and
\* not at all if none did.
C1_OneOuterRecur ==
    /\ outerRecurs <= 1
    /\ outerRecurs = 1 => Recursers # {}
    /\ MuxPastRecur => outerRecurs = IF Recursers # {} THEN 1 ELSE 0

\* two sub-writers called Recur, ServeDNS recurred once and has returned
C1_Witness ==
    /\ N = 2 /\ Recursers = {1, 2}
    /\ outerRecurs = 1 /\ pc[0] = "m_done"


\* every handler calls Recur at most once, does not call Reply itself, and
\* returns
WellBehaved ==
    /\ N >= 1
    /\ \A i \in Writers : kind[i] \in {"recursive", "local"}

\* C2: for a query with at least one question whose handlers call Recur at
\* most once, do not call Reply and return, ServeDNS eventually receives the
\* merged reply on the replyc of the last sub-writer and calls Reply on the
\* outer writer, under every interleaving.
C2_MuxReplies == WellBehaved ~> (MuxHasReply /\ outerReplies = 1)

\* the first handler recursed, the last did not and relayed the request
\* during its Reply; ServeDNS recurred and replied
C2_Witness ==
    /\ N = 2 /\ kind[1] = "recursive" /\ kind[2] = "local"
    /\ outerRecurs = 1 /\ MuxHasReply /\ outerReplies = 1

\* the questions of the sub-writers in S among the first k, in query order
RECURSIVE QuestionsOf(_, _)
QuestionsOf(k, S) ==
    IF k = 0 THEN <<>>
    ELSE QuestionsOf(k - 1, S) \o (IF k \in S THEN <<questions[k]>> ELSE <<>>)

\* the largest element of a non-empty set of numbers
SetMax(S) == CHOOSE x \in S : \A y \in S : y <= x

\* C3: the request that reaches ServeDNS on recurc holds the question of
\* every sub-writer that called Recur once, and no other question (here: in
\* the order of the query); its opcode is the maximum of their opcodes and
\* its recursion-desired flag the OR of theirs.
C3_MergedRequest ==
    muxRequest # NoMsg =>
        /\ muxRequest.Questions = QuestionsOf(N, Recursers)
        /\ muxRequest.OpCode = SetMax({ wmsg[i].OpCode : i \in Recursers })
        /\ muxRequest.RecursionDesired
              = (\E i \in Recursers : wmsg[i].RecursionDesired)

\* both sub-writers recursed and ServeDNS holds a request of two questions
C3_Witness ==
    /\ N = 2 /\ Recursers = {1, 2}
    /\ muxRequest # NoMsg /\ Len(muxRequest.Questions) = 2

\* Recur of sub-writer i has returned a message to its handler
RecurOK(i) == recurResult[i] # NoMe /\ recurResult[i].err = "nil"

\* C4: a sub-writer whose Recur returns without error gets the answers of
\* the one upstream reply whose Name is the Name of its own question, in
\* upstream order.
C4_Projection ==
    \A i \in Writers :
        RecurOK(i) =>
            /\ upstream.err = "nil"
            /\ recurResult[i].msg.Answers
                 = SelectSeq(upstream.msg.Answers,
                             LAMBDA a : a.Name = questions[i].Name)

\* two sub-writers with different Names both got answers from the reply
C4_Witness ==
    /\ N = 2 /\ questions[1].Name # questions[2].Name
    /\ RecurOK(1) /\ RecurOK(2)
    /\ recurResult[1].msg.Answers # <<>>
    /\ recurResult[2].msg.Answers # <<>>
    /\ Len(upstream.msg.Answers) > Len(recurResult[1].msg.Answers)


\* answer a is among the answers Recur returned to sub-writer i
Delivered(i, a) ==
    /\ RecurOK(i)
    /\ \E k \in DOMAIN recurResult[i].msg.Answers :
          recurResult[i].msg.Answers[k] = a

\* C5: the answers of the upstream reply are partitioned among the recursing
\* sub-writers: once every one of them has its result, each upstream answer
\* has been delivered to exactly one of them.
C5_Partition ==
    (upstream.err = "nil" /\ \A i \in Recursers : RecurOK(i)) =>
        \A k \in DOMAIN upstream.msg.Answers :
            Cardinality({ i \in Recursers :
                            Delivered(i, upstream.msg.Answers[k]) }) = 1

Sections == {"Questions", "Answers", "Authorities", "Additionals"}

Elems(s) == { s[k] : k \in DOMAIN s }

Count(s, x) == Cardinality({ k \in DOMAIN s : s[k] = x })

\* how often x is in section sec of the replies of the first k sub-writers
RECURSIVE CountUpTo(_, _, _)
CountUpTo(k, sec, x) ==
    IF k = 0 THEN 0 ELSE CountUpTo(k - 1, sec, x) + Count(wmsg[k][sec], x)

\* C6: the reply ServeDNS receives from the chain is the merge of the N
\* per-question replies: authoritative is the AND of theirs, recursion
\* available the OR, rcode the maximum, and every section holds every record
\* of every sub-reply exactly once (as often as the sub-replies hold it).
C6_MergedReply ==
    MuxHasReply =>
        LET m == muxReply.msg IN
        /\ m.Authoritative = (\A i \in Writers : wmsg[i].Authoritative)
        /\ m.RecursionAvailable = (\E i \in Writers : wmsg[i].RecursionAvailable)
        /\ m.RCode = SetMax({ wmsg[i].RCode : i \in Writers })
        /\ \A sec \in Sections :
              \A x \in Elems(m[sec]) \cup UNION { Elems(wmsg[i][sec]) : i \in Writers } :
                  Count(m[sec], x) = CountUpTo(N, sec, x)

\* an authoritative local reply and a non-authoritative recursive reply,
\* both with answers, were merged
C6_Witness ==
    /\ MuxHasReply /\ N = 2
    /\ kind[1] = "local" /\ kind[2] = "recursive"
    /\ wmsg[1].Authoritative /\ ~wmsg[2].Authoritative
    /\ wmsg[1].Answers # <<>> /\ wmsg[2].Answers # <<>>
    /\ ~muxReply.msg.Authoritative /\ muxReply.msg.RecursionAvailable

\* section sec of the replies of the first k sub-writers, one after another
RECURSIVE Concat(_, _)
Concat(k, sec) ==
    IF k = 0 THEN <<>> ELSE Concat(k - 1, sec) \o wmsg[k][sec]

\* C7: in the merged reply the records of one handler keep the order in
\* which it emitted them, and the sub-replies' sections follow one another
\* in the order of the questions, however the handlers interleave.
C7_SectionOrder ==
    MuxHasReply => \A sec \in Sections : muxReply.msg[sec] = Concat(N, sec)

\* two local handlers emitted two records each
C7_Witness ==
    /\ MuxHasReply /\ N = 2
    /\ kind[1] = "local" /\ kind[2] = "local"
    /\ questions[1] # questions[2]
    /\ Len(wmsg[1].Answers) = 2 /\ Len(wmsg[2].Answers) = 2
    /\ Len(muxReply.msg.Answers) = 4

\* C8: a handler may call Reply itself and return: its sub-writer posts its
\* reply once, finish performs no second Reply, and nothing faults.
C8_ReplyOnce ==
    \A i \in Writers :
        kind[i] = "replier" =>
            /\ replyCalls[i] <= 1
            /\ Len(subReply[i]) <= 1
            /\ fault = "none"

\* process p is blocked in a channel operation of Recur, Reply or ServeDNS
Blocked(p) ==
    /\ p \in 0..N
    /\ pc[p] \in {"m_recvRecur", "m_sendRecur", "m_recvReply", "m_sendErr",
               "rc_recvNext", "rc_send", "rc_recv", "rc_fwd",
               "rp_recvNext", "rp_relaySend", "rp_relayRecv", "rp_relayFwd",
               "rp_recvReply", "rp_sendReply", "rp_recvFinal", "rp_fwdFinal"}

\* C9: once the context is cancelled, a party blocked on a rendezvous in
\* Recur, Reply or ServeDNS abandons it: it does not stay blocked forever.
C9_CancelUnblocks ==
    \A p \in 0..MaxQuestions :
        (Running /\ cancelled /\ Blocked(p)) ~> (~Running \/ ~Blocked(p))

\* the one upstream call failed and ServeDNS has the merged reply
UpstreamFailed == upstream.err \notin {"nil", "unset"} /\ MuxHasReply

\* every sub-writer that called Recur got the error of the upstream call and
\* its handler set ServFail
RecursersFailed ==
    \A i \in Recursers :
        /\ recurResult[i].err = upstream.err
        /\ wmsg[i].RCode = ServFail

\* C10 (as stated): when the upstream call fails, every recursing sub-writer
\* gets the error, its handler sets ServFail, and the merged reply has
\* rcode ServFail whatever the other handlers answered.
C10_Original ==
    UpstreamFailed =>
        /\ RecursersFailed
        /\ muxReply.msg.RCode = ServFail

\* C10 (amended): ... and the merged reply has the largest rcode of the
\* sub-replies, which is at least ServFail, and is ServFail when no other
\* handler set a larger rcode.
C10_UpstreamError ==
    UpstreamFailed =>
        /\ RecursersFailed
        /\ muxReply.msg.RCode >= ServFail
        /\ \E i \in Writers : muxReply.msg.RCode = wmsg[i].RCode
        /\ (\A i \in Writers : wmsg[i].RCode <= ServFail)
              => muxReply.msg.RCode = ServFail

\* the upstream call failed for a recursing question next to a question
\* that a local handler answered with NoError
C10_Witness ==
    /\ UpstreamFailed /\ N = 2
    /\ kind[1] = "local" /\ wmsg[1].RCode = NoError /\ wmsg[1].Answers # <<>>
    /\ kind[2] = "recursive" /\ recurResult[2].err = "upstream error"
    /\ muxReply.msg.RCode = ServFail


\* ======================================================= ResolveMux.lookup
\* Names that the code slices or matches by suffix are sequences of
\* characters: "a.b." is <<"a", ".", "b", ".">>.

MaxEntries == 3

TypeANY == 0

\* strings.HasSuffix(s, suffix)
HasSuffix(s, suffix) ==
    /\ Len(suffix) <= Len(s)
    /\ SubSeq(s, Len(s) - Len(suffix) + 1, Len(s)) = suffix

\* the handlers a program registers, and the default handler
HandlerIds == {"h1", "h2"}
recursiveHandler == "recursiveHandler"

muxEntry(typ, suffix, h) == [typ |-> typ, suffix |-> suffix, h |-> h]

\* the patterns a program registers: "", "b." and "a.b."
EntryTypes == {TypeANY, TypeA, TypeAAAA}
Suffixes == { <<>>, <<"b", ".">>, <<"a", ".", "b", ".">> }

\* the questions looked up: "a.b.", "b." and "c."
LookupQuestions ==
    [Name : { <<"a", ".", "b", ".">>, <<"b", ".">>, <<"c", ".">> },
     Type : {TypeANY, TypeA, TypeAAAA}]

\* the loop of lookup from entry i on
RECURSIVE lookupFrom(_, _, _)
lookupFrom(t, q, i) ==
    IF i > Len(t) THEN recursiveHandler
    ELSE IF t[i].typ # q.Type /\ t[i].typ # TypeANY
         THEN lookupFrom(t, q, i + 1)
         ELSE IF HasSuffix(q.Name, t[i].suffix)
              THEN t[i].h
              ELSE lookupFrom(t, q, i + 1)

\* lookup that walks the table from its last entry to its first
lookupLast(t, q) ==
    lookupFrom([i \in 1..Len(t) |-> t[Len(t) + 1 - i]], q, 1)

\* m.lookup(q) for the table t
lookup(t, q) == lookupFrom(t, q, 1)

\* m.Handle(typ, zone, h); a program registers its handlers before the
\* mux looks anything up
Handle(typ, suffix, h) ==
    /\ Running /\ lookupRet = NoLookup
    /\ Len(tbl) < MaxEntries
    /\ tbl' = Append(tbl, muxEntry(typ, suffix, h))
    /\ UNCHANGED <<lookupRet, muxvars, wirevars, fault, zonevars, zrrs, rrvars>>

\* ServeDNS looks the handler of a question up
CallLookup(q) ==
    /\ Running
    /\ lookupRet' = [q |-> q, h |-> lookup(tbl, q)]
    /\ UNCHANGED <<tbl, muxvars, wirevars, fault, zonevars, zrrs, rrvars>>

LookupInit ==
    LookupIdle /\ MuxIdle /\ fault = "none" /\ ZoneIdle /\ RRSetIdle /\ WireIdle

LookupNext ==
    \/ \E typ \in EntryTypes, suffix \in Suffixes, h \in HandlerIds :
          Handle(typ, suffix, h)
    \/ \E q \in LookupQuestions : CallLookup(q)

LookupSpec == LookupInit /\ [][LookupNext]_vars

\* entry e matches question q
Matches(e, q) ==
    /\ e.typ = q.Type \/ e.typ = TypeANY
    /\ HasSuffix(q.Name, e.suffix)

\* the indices of the entries of tbl that match q
Matching(q) == { i \in 1..Len(tbl) : Matches(tbl[i], q) }

\* C11: lookup returns the handler of the first entry, in registration
\* order, whose Type is the question's Type or ANY and whose suffix ends the
\* question's Name, and the default recursive handler when no entry matches.
C11_FirstMatch ==
    lookupRet # NoLookup =>
        LET S == Matching(lookupRet.q)
        IN  IF S = {}
            THEN lookupRet.h = recursiveHandler
            ELSE \E i \in S : /\ \A j \in S : i <= j
                              /\ lookupRet.h = tbl[i].h

\* two entries with different handlers match, after one that does not
C11_Witness ==
    /\ lookupRet # NoLookup
    /\ \E i, j \in Matching(lookupRet.q) :
          /\ 1 < i /\ i < j
          /\ 1 \notin Matching(lookupRet.q)
          /\ tbl[i].h # tbl[j].h
          /\ lookupRet.h = tbl[i].h

\* entry i matches q at least as closely as entry j: a longer suffix, or
\* the same length and the exact Type where j has ANY
Closer(i, j) ==
    \/ Len(tbl[i].suffix) > Len(tbl[j].suffix)
    \/ /\ Len(tbl[i].suffix) = Len(tbl[j].suffix)
       /\ tbl[i].typ # TypeANY \/ tbl[j].typ = TypeANY

\* C12: a question is dispatched to the handler of the entry that matches
\* it most closely (longest suffix, exact Type over ANY), whatever the order
\* of registration.
C12_ClosestMatch ==
    lookupRet # NoLookup =>
        LET S == Matching(lookupRet.q)
        IN  S # {} =>
                \E i \in S : /\ \A j \in S : Closer(i, j)
                             /\ lookupRet.h = tbl[i].h


\* ========================================================== Zone.ServeDNS

MaxZoneQuestions == 2

TypeCNAME == 5
TypeSOA == 6

\* a Record: its Type() and its data (the address of an A, the target of a
\* CNAME), a sequence of characters
Rec(t, d) == [Type |-> t, Data |-> d]

a1 == Rec(TypeA, <<"1">>)
a2 == Rec(TypeA, <<"2">>)
CName(target) == Rec(TypeCNAME, target)

\* the names "b." (the Origin), "a.b.", "c.b.", "ab.", "c." and "axb."
nameB == <<"b", ".">>
nameAB == <<"a", ".", "b", ".">>
nameCB == <<"c", ".", "b", ".">>
nameAb == <<"a", "b", ".">>
nameC == <<"c", ".">>
nameAxB == <<"a", "x", "b", ".">>

\* the nil *SOA and the SOA of the zone
NilSOA == [nil |-> TRUE]
TheSOA == Rec(TypeSOA, <<"s">>)

Zones == [Origin : {nameB}, TTL : {30}, SOA : {NilSOA, TheSOA}]

ZoneQuestionSet ==
    [Name : {nameB, nameAB, nameCB, nameAb, nameC, nameAxB},
     Type : {TypeA, TypeCNAME, TypeSOA}]

Queries ==
    [Questions : SeqsUpTo(ZoneQuestionSet, MaxZoneQuestions),
     RecursionDesired : BOOLEAN]

\* a map with the given keys
Map(kv) == [nil |-> FALSE, kv |-> kv]

\* the contents of the RRSet of the zone: the zero value; A records; A and
\* CNAME records with targets in the zone; a CNAME with a target outside
\* the zone; CNAMEs and the empty key; a CNAME stored under Type A
ZoneMaps ==
    { NilMap,
      Map([k \in {<<"a">>} |-> [t \in {TypeA} |-> <<a1, a2>>]]),
      Map([k \in {<<"a">>, <<"c">>} |->
              IF k = <<"a">>
              THEN [t \in {TypeA, TypeCNAME} |->
                      IF t = TypeA THEN <<a2, a1>> ELSE <<CName(nameCB)>>]
              ELSE [t \in {TypeA, TypeCNAME} |->
                      IF t = TypeA THEN <<a1>> ELSE <<CName(nameAB)>>]]),
      Map([k \in {<<"a">>} |-> [t \in {TypeCNAME} |-> <<CName(nameC)>>]]),
      Map([k \in {<<"a">>, <<"c">>, <<>>} |->
              IF k = <<"a">>
              THEN [t \in {TypeCNAME} |-> <<CName(nameCB), CName(nameAB)>>]
              ELSE IF k = <<"c">>
                   THEN [t \in {TypeCNAME} |-> <<CName(nameAB)>>]
                   ELSE [t \in {TypeA} |-> <<a1>>]]),
      Map([k \in {<<"a">>, <<"c">>} |->
              IF k = <<"a">>
              THEN [t \in {TypeA} |-> <<CName(nameCB), a2>>]
              ELSE [t \in {TypeA} |-> <<a1>>]]) }

\* r, ok := el.m[k] of GetKey
MapGet(mp, k) ==
    [r |-> IF k \in DOMAIN mp.kv THEN mp.kv[k] ELSE <<>>,
     ok |-> k \in DOMAIN mp.kv]

\* rrs[t]: the records of Type t of one key, none when the Type is absent
Recs(rrs, t) == IF t \in DOMAIN rrs THEN rrs[t] ELSE <<>>

\* name[:len(name)-len(origin)] that leaves the label separator in place
StripOrigin(name, origin) == SubSeq(name, 1, Len(name) - Len(origin))

\* name[:len(name)-len(origin)-1]
Strip(name, origin) == SubSeq(name, 1, Len(name) - Len(origin) - 1)

\* the slice expression panics when its upper bound is negative
StripPanics(name, origin) == Len(name) - Len(origin) - 1 < 0

\* The loop body of Zone.ServeDNS works on st = [msg, found, fault]: the
\* message of w, the local found, and the panic that ended the call.

\* w.Answer(n, z.TTL, rr) for every rr of recs, in order
RECURSIVE AnswerEach(_, _, _)
AnswerEach(msg, n, recs) ==
    IF recs = <<>> THEN msg
    ELSE AnswerEach(Answer(msg, n, zone.TTL, Head(recs)), n, Tail(recs))

\* the chase that names its answers by the question instead of the target
ChaseAsQuestion(st, q, rr) ==
    IF StripPanics(rr.Data, zone.Origin)
    THEN [st EXCEPT !.fault = "slice bounds out of range"]
    ELSE LET g == MapGet(elm, Strip(rr.Data, zone.Origin))
         IN  IF g.ok
             THEN [st EXCEPT !.msg = AnswerEach(@, q.Name, Recs(g.r, q.Type))]
             ELSE st

\* the chase of the CNAME rr answered for question q
Chase(st, q, rr) ==
    IF StripPanics(rr.Data, zone.Origin)
    THEN [st EXCEPT !.fault = "slice bounds out of range"]
    ELSE LET g == MapGet(elm, Strip(rr.Data, zone.Origin))
         IN  IF g.ok
             THEN [st EXCEPT !.msg = AnswerEach(@, rr.Data, Recs(g.r, q.Type))]
             ELSE st

\* the loop over the records recs of the question's Type, from record i on
RECURSIVE ZoneRecords(_, _, _, _)
ZoneRecords(st, q, recs, i) ==
    IF i > Len(recs) \/ st.fault # "none" THEN st
    ELSE LET rr == recs[i]
             a == [st EXCEPT !.msg = Answer(@, q.Name, zone.TTL, rr),
                             !.found = TRUE]
         IN  IF query.RecursionDesired /\ rr.Type = TypeCNAME
             THEN ZoneRecords(Chase(a, q, rr), q, recs, i + 1)
             ELSE ZoneRecords(a, q, recs, i + 1)

\* one iteration of the loop over r.Questions
ServeQuestion(st, q) ==
    IF ~HasSuffix(q.Name, zone.Origin) THEN st
    ELSE IF q.Type = TypeSOA /\ q.Name = zone.Origin
    THEN [st EXCEPT !.msg = Answer(@, q.Name, zone.TTL, zone.SOA),
                    !.found = TRUE]
    ELSE IF StripPanics(q.Name, zone.Origin)
    THEN [st EXCEPT !.fault = "slice bounds out of range"]
    ELSE LET g == MapGet(elm, Strip(q.Name, zone.Origin))
         IN  IF ~g.ok THEN st
             ELSE ZoneRecords(st, q, Recs(g.r, q.Type), 1)

\* ServeDNS that leaves the authoritative flag alone
ZoneAuthoritativeSkip ==
    /\ Running /\ zpc = "start"
    /\ found' = FALSE
    /\ zi' = 1
    /\ zpc' = "loop"
    /\ UNCHANGED <<zmsg, zone, query, muxvars, wirevars, fault, lookupvars, rrvars, zrrs>>

\* w.Authoritative(true); var found bool
ZoneAuthoritative ==
    /\ Running /\ zpc = "start"
    /\ zmsg' = Authoritative(zmsg, TRUE)
    /\ found' = FALSE
    /\ zi' = 1
    /\ zpc' = "loop"
    /\ UNCHANGED <<zone, query, muxvars, wirevars, fault, lookupvars, rrvars, zrrs>>

\* the loop serves its next question; GetKey takes the lock of the RRSet
ZoneQuestion ==
    /\ Running /\ zpc = "loop" /\ zi <= Len(query.Questions)
    /\ l = 0
    /\ LET st == ServeQuestion([msg |-> zmsg, found |-> found, fault |-> "none"],
                               query.Questions[zi])
       IN  /\ zmsg' = st.msg
           /\ found' = st.found
           /\ fault' = st.fault
    /\ zi' = zi + 1
    /\ UNCHANGED <<zone, query, zpc, muxvars, wirevars, lookupvars, rrvars, zrrs>>

\* the end of ServeDNS that sets NXDomain whatever was found
ZoneReturnAlways ==
    /\ Running /\ zpc = "loop" /\ zi > Len(query.Questions)
    /\ zmsg' = LET s == Status(zmsg, NXDomain)
               IN  IF zone.SOA # NilSOA
                   THEN Authority(s, zone.Origin, zone.TTL, zone.SOA)
                   ELSE s
    /\ zpc' = "done"
    /\ UNCHANGED <<zone, query, zi, found, muxvars, wirevars, fault, lookupvars, rrvars, zrrs>>

\* after the loop: NXDomain and the SOA when nothing was found; return
ZoneReturn ==
    /\ Running /\ zpc = "loop" /\ zi > Len(query.Questions)
    /\ zmsg' = IF ~found
               THEN LET s == Status(zmsg, NXDomain)
                    IN  IF zone.SOA # NilSOA
                        THEN Authority(s, zone.Origin, zone.TTL, zone.SOA)
                        ELSE s
               ELSE zmsg
    /\ zpc' = "done"
    /\ UNCHANGED <<zone, query, zi, found, muxvars, wirevars, fault, lookupvars, rrvars, zrrs>>

\* a Zone with some records is about to serve a query with a fresh writer
ZoneInit ==
    /\ zone \in Zones
    /\ query \in Queries
    /\ zmsg = Message(0, query.RecursionDesired, TRUE, FALSE, FALSE, NoError,
                      query.Questions, <<>>, <<>>, <<>>)
    /\ zpc = "start" /\ zi = 0 /\ found = FALSE
    /\ zrrs = NoRrs
    /\ elm \in ZoneMaps
    /\ init = ~elm.nil /\ l = 0
    /\ rpc = [c \in Callers |-> "idle"]
    /\ call = [c \in Callers |-> NoCall]
    /\ ret = [c \in Callers |-> NoRet]
    /\ before = NilMap
    /\ hooks = {} /\ hooklog = <<>>
    /\ LookupIdle /\ MuxIdle /\ WireIdle /\ fault = "none"

ZoneNext ==
    \/ ZoneAuthoritative
    \/ ZoneQuestion
    \/ ZoneReturn

ZoneSpec == ZoneInit /\ [][ZoneNext]_vars

\* ServeDNS has returned: zmsg is the reply it produced
ZoneReplied == zpc = "done"

\* C13: every reply produced by Zone.ServeDNS has the authoritative flag
\* set, whatever the questions of the query and whatever was answered.
C13_Authoritative == ZoneReplied => zmsg.Authoritative

\* a reply to two questions, one outside the zone and one answered
C13_Witness ==
    /\ ZoneReplied /\ zmsg.Authoritative
    /\ Len(query.Questions) = 2
    /\ zmsg.Answers # <<>>
    /\ \E i \in 1..2 : ~HasSuffix(query.Questions[i].Name, zone.Origin)

\* C14: a reply of Zone.ServeDNS without an answer has rcode NXDomain and,
\* when the zone has an SOA, exactly one Authority record, the SOA named by
\* the Origin; a reply with an answer has no status and no Authority record.
C14_NotFound ==
    ZoneReplied =>
        IF zmsg.Answers = <<>>
        THEN /\ zmsg.RCode = NXDomain
             /\ zone.SOA # NilSOA =>
                    zmsg.Authorities =
                        << Resource(zone.Origin, zone.TTL, zone.SOA) >>
        ELSE /\ zmsg.RCode = NoError
             /\ zmsg.Authorities = <<>>

\* a reply without an answer to a question inside a zone that has an SOA
C14_Witness ==
    /\ ZoneReplied
    /\ zmsg.Answers = <<>> /\ zmsg.RCode = NXDomain
    /\ zone.SOA # NilSOA /\ Len(zmsg.Authorities) = 1
    /\ \E i \in 1..Len(query.Questions) :
          HasSuffix(query.Questions[i].Name, zone.Origin)

\* the keys of the RRSet that name n: a short name, a label separator and
\* the Origin
KeysOf(n) == { k \in DOMAIN elm.kv : n = k \o <<".">> \o zone.Origin }

\* the records stored for name n and Type t, none when n is no key
Stored(n, t) ==
    IF KeysOf(n) = {} THEN <<>>
    ELSE Recs(elm.kv[CHOOSE k \in KeysOf(n) : TRUE], t)

\* one answer named n per record of recs, in the order of recs
Named(n, recs) ==
    [j \in 1..Len(recs) |-> Resource(n, zone.TTL, recs[j])]

\* the loop is serving question zi in this step
ServesQuestion == zpc = "loop" /\ zi <= Len(query.Questions) /\ zi' = zi + 1

\* serving q chases no CNAME
NoChase(q) ==
    \/ ~query.RecursionDesired
    \/ \A j \in 1..Len(Stored(q.Name, q.Type)) :
          Stored(q.Name, q.Type)[j].Type # TypeCNAME

\* C15: for a question whose Name is a key of the zone, ServeDNS emits one
\* answer per record stored under the short name for the question's Type,
\* in the stored order, named by the question and with the zone's TTL, and
\* no other answer (CNAME chasing apart).
C15_KeyAnswers ==
    [][ LET q == query.Questions[zi]
        IN  (ServesQuestion /\ KeysOf(q.Name) # {} /\ NoChase(q)) =>
                zmsg'.Answers =
                    zmsg.Answers \o Named(q.Name, Stored(q.Name, q.Type)) ]_vars

\* the first question named a key with two records of its Type
C15_Witness ==
    /\ zpc \in {"loop", "done"} /\ zi >= 2
    /\ LET q == query.Questions[1]
       IN  /\ KeysOf(q.Name) # {}
           /\ NoChase(q)
           /\ Len(Stored(q.Name, q.Type)) = 2
           /\ Stored(q.Name, q.Type)[1] # Stored(q.Name, q.Type)[2]
           /\ SubSeq(zmsg.Answers, 1, 2) =
                  Named(q.Name, Stored(q.Name, q.Type))

\* the answers for the records recs of question q from record j on, with
\* the records of q's Type stored at the target after every CNAME when
\* recursion is desired
RECURSIVE Chased(_, _, _)
Chased(q, recs, j) ==
    IF j > Len(recs) THEN <<>>
    ELSE << Resource(q.Name, zone.TTL, recs[j]) >>
         \o (IF query.RecursionDesired /\ recs[j].Type = TypeCNAME
             THEN Named(recs[j].Data, Stored(recs[j].Data, q.Type))
             ELSE <<>>)
         \o Chased(q, recs, j + 1)

\* every CNAME among recs has its target inside the zone
TargetsInZone(recs) ==
    \A j \in 1..Len(recs) :
        recs[j].Type = TypeCNAME =>
            /\ HasSuffix(recs[j].Data, <<".">> \o zone.Origin)
            /\ Len(recs[j].Data) > Len(zone.Origin) + 1

\* C16: with recursion desired, a CNAME answered for a question is followed
\* by one answer per record of the question's Type stored at the CNAME's
\* target (origin stripped), named by the target; with recursion-desired
\* clear no such answers are emitted.
C16_CnameChase ==
    [][ LET q == query.Questions[zi]
        IN  (/\ ServesQuestion /\ KeysOf(q.Name) # {}
             /\ TargetsInZone(Stored(q.Name, q.Type))) =>
                zmsg'.Answers =
                    zmsg.Answers \o Chased(q, Stored(q.Name, q.Type), 1) ]_vars

\* the first answer is a CNAME and the second is a record stored at its
\* target, named by the target
C16_Witness ==
    /\ zpc \in {"loop", "done"} /\ zi >= 2
    /\ query.RecursionDesired
    /\ Len(zmsg.Answers) >= 2
    /\ zmsg.Answers[1].Rec.Type = TypeCNAME
    /\ zmsg.Answers[1].Name = query.Questions[1].Name
    /\ zmsg.Answers[2].Name = zmsg.Answers[1].Rec.Data
    /\ zmsg.Answers[2].Name # query.Questions[1].Name
    /\ zmsg.Answers[2].Rec \in
          { Stored(zmsg.Answers[2].Name, query.Questions[1].Type)[j] :
              j \in 1..Len(Stored(zmsg.Answers[2].Name, query.Questions[1].Type)) }


\* ================================================================= RRSet
\* Every operation takes el.l first and releases it in a defer; what it does
\* in between is one step, for no other caller can run while the lock is
\* held.  Each caller makes one call; the hooks are all nil.

\* the keys and records the callers pass
KeySet == { <<"a">>, <<"c">> }
RecordSet == { a1, a2, CName(nameCB) }

\* the maps of one key passed to SetKey: nil, A records, A and CNAME
KeyMaps ==
    { <<>>,
      [t \in {TypeA} |-> <<a1>>],
      [t \in {TypeA, TypeCNAME} |->
          IF t = TypeA THEN <<a2>> ELSE <<CName(nameCB)>>] }

\* the maps passed to Set: nil, empty, one key
SetMaps ==
    { NilMap, MakeMap,
      Map([k \in {<<"c">>} |-> [t \in {TypeA} |-> <<a1, a2>>]]) }

Calls ==
    [op : {"Clear", "Len"}]
    \cup [op : {"Set"}, v : SetMaps]
    \cup [op : {"SetKey"}, k : KeySet, v : KeyMaps]
    \cup [op : {"GetKey", "DeleteKey"}, k : KeySet]
    \cup [op : {"DeleteRecordInKey", "AppendRecordInKey"},
          k : KeySet, r : RecordSet]

\* el.m[k] = v on a map that is not nil
MapPut(mp, k, v) ==
    [nil |-> FALSE,
     kv |-> [x \in DOMAIN mp.kv \cup {k} |-> IF x = k THEN v ELSE mp.kv[x]]]

\* delete(el.m, k) that deletes nothing
MapDeleteNone(mp, k) == mp

\* delete(el.m, k): nothing happens on the nil map or without the key
MapDelete(mp, k) ==
    [nil |-> mp.nil, kv |-> [x \in DOMAIN mp.kv \ {k} |-> mp.kv[x]]]

\* New[t] = recs on the map of one key
TypePut(rrs, t, recs) ==
    [x \in DOMAIN rrs \cup {t} |-> IF x = t THEN recs ELSE rrs[x]]

\* append(s[:i], s[i+1:]...) for the i-th record, counted from 1
RemoveAt(s, i) == SubSeq(s, 1, i - 1) \o SubSeq(s, i + 1, Len(s))

\* if el.init == false { el.init = true; el.m = make(...) }
Made(mp) == IF init THEN mp ELSE MakeMap

\* the event tags
KEventClear == 1
KEventSet == 2
KEventSetKey == 3
KEventDeleteKey == 4
KEventDeleteKeyInRecord == 5
KEventAppendKeyInRecord == 6

\* the operations that change the map, each with the tag its deferred
\* deferOnChange passes and the hook its own deferred helper calls
Mutators == {"Clear", "Set", "SetKey", "DeleteKey", "DeleteRecordInKey",
             "AppendRecordInKey"}

EventOf(op) ==
    CASE op = "Clear" -> KEventClear
      [] op = "Set" -> KEventSet
      [] op = "SetKey" -> KEventSetKey
      [] op = "DeleteKey" -> KEventDeleteKey
      [] op = "DeleteRecordInKey" -> KEventDeleteKeyInRecord
      [] op = "AppendRecordInKey" -> KEventAppendKeyInRecord

AfterHookOf(op) ==
    CASE op = "Clear" -> "onClear"
      [] op = "Set" -> "onSet"
      [] op = "SetKey" -> "onSetKey"
      [] op = "DeleteKey" -> "onDeleteKey"
      [] op = "DeleteRecordInKey" -> "onDeleteKeyInRecord"
      [] op = "AppendRecordInKey" -> "onAppendKeyInRecord"

\* the hook fields that have a setter; onSet and beforeOnSet have none and
\* stay nil
SettableHooks ==
    {"beforeOnClear", "beforeOnChange", "beforeOnSetKey", "beforeOnDeleteKey",
     "beforeOnDeleteKeyInRecord", "beforeOnAppendKeyInRecord", "onClear",
     "onChange", "onSetKey", "onDeleteKey", "onDeleteKeyInRecord",
     "onAppendKeyInRecord"}

\* if el.h != nil { el.h(...) }: the log after caller c has reached the
\* call of hook h with the event tag e (0 for a hook that takes none)
\* while the RRSet holds the map mp
Fire(log, h, e, c, mp) ==
    IF h \in hooks
    THEN Append(log, [hook |-> h, event |-> e, c |-> c, m |-> mp])
    ELSE log

\* the loop of DeleteRecordInKey over the records recs of r's Type, from
\* record i on: the index of the first record that matches r, 0 when none
\* does, -1 when the type assertion on a stored record panics before
RECURSIVE FirstMatch(_, _, _)
FirstMatch(recs, r, i) ==
    IF i > Len(recs) THEN 0
    ELSE IF recs[i].Type # r.Type THEN -1
    ELSE IF recs[i].Data = r.Data THEN i
    ELSE FirstMatch(recs, r, i + 1)

\* What a Zone.ServeDNS that runs beside the callers holds in its local rrs
\* is the inner map GetKey returned, and its range runs over the slice it
\* read from that map: both are shared with the RRSet for as long as el.m
\* holds that map and that map holds a slice of that array.  zr.share says
\* what is shared still: "array" (map and array), "map" or "none".

\* el.m[zr.key] is replaced or removed: rrs keeps the map it was given
Detached(zr, mp) ==
    IF zr = NoRrs \/ zr.share = "none" THEN zr
    ELSE [zr EXCEPT !.share = "none", !.map = MapGet(mp, zr.key).r]

Shares(zr, k) == zr # NoRrs /\ zr.share # "none" /\ zr.key = k

SharesArray(zr, k, t) == Shares(zr, k) /\ zr.share = "array" /\ zr.t = t

\* append(New[t][:i], New[t][i+1:]...) on the stored slice cur moves the
\* records behind i one place down inside the array
Shifted(zr, cur, i) ==
    [zr EXCEPT !.arr = [p \in 1..Len(zr.arr) |->
                           IF p < i THEN zr.arr[p]
                           ELSE IF p < Len(cur) THEN cur[p + 1]
                           ELSE zr.arr[p]]]

\* append(New[t], r) on the stored slice cur writes r behind cur into the
\* array when there is room; without room known it may allocate an array
Grown(zr, cur, r) ==
    IF Len(cur) < Len(zr.arr)
    THEN {[zr EXCEPT !.arr = [@ EXCEPT ![Len(cur) + 1] = r]]}
    ELSE {zr, [zr EXCEPT !.share = "map"]}

SeenDelete(zr, k, r, old) ==
    IF SharesArray(zr, k, r.Type) /\ FirstMatch(Recs(old, r.Type), r, 1) > 0
    THEN {Shifted(zr, old[r.Type], FirstMatch(Recs(old, r.Type), r, 1))}
    ELSE {zr}

SeenAppend(zr, k, r, old, mp) ==
    IF ~Shares(zr, k) THEN {zr}
    ELSE IF Len(Recs(old, r.Type)) = 0 THEN {Detached(zr, mp)}
    ELSE IF SharesArray(zr, k, r.Type) THEN Grown(zr, old[r.Type], r)
    ELSE {zr}

\* what rrs and the array under the range may hold after the call cl has
\* acted on the map mp
Seen(zr, cl, mp) ==
    CASE cl.op \in {"Clear", "Set"} -> {Detached(zr, mp)}
      [] cl.op \in {"SetKey", "DeleteKey"} ->
             {IF Shares(zr, cl.k) THEN Detached(zr, mp) ELSE zr}
      [] cl.op = "DeleteRecordInKey" ->
             SeenDelete(zr, cl.k, cl.r, MapGet(mp, cl.k).r)
      [] cl.op = "AppendRecordInKey" ->
             SeenAppend(zr, cl.k, cl.r, MapGet(Made(mp), cl.k).r, mp)
      [] OTHER -> {zr}

\* the sequences that have been stored under rrs's key for the Type of the
\* question since GetKey returned, the one of the map newm among them
Noted(zr, newm) ==
    IF zr = NoRrs THEN zr
    ELSE [zr EXCEPT !.stored = @ \cup {Recs(MapGet(newm, zr.key).r, zr.t)}]

\* the caller c takes the lock for the call cl
Lock(c, cl) ==
    /\ Running /\ rpc[c] = "idle" /\ l = 0
    /\ l' = c
    /\ call' = [call EXCEPT ![c] = cl]
    /\ rpc' = [rpc EXCEPT ![c] = "locked"]
    /\ before' = elm
    /\ UNCHANGED <<elm, init, ret, hooks, hooklog,
                   muxvars, wirevars, fault, lookupvars, zonevars, zrrs>>

\* the deferred el.l.Unlock(); the call returns
Unlock(c) ==
    /\ Running /\ rpc[c] = "unlock" /\ l = c
    /\ l' = 0
    /\ rpc' = [rpc EXCEPT ![c] =
                  IF call[c].op \in Mutators THEN "unlocked" ELSE "done"]
    /\ UNCHANGED <<elm, init, call, ret, before, hooks, hooklog,
                   muxvars, wirevars, fault, lookupvars, zonevars, zrrs>>

\* caller c is inside the operation op, holding the lock
Inside(c, op) == Running /\ rpc[c] = "locked" /\ l = c /\ call[c].op = op

\* what every operation leaves alone
Body(c) ==
    /\ rpc' = [rpc EXCEPT ![c] = IF fault' = "none" THEN "unlock" ELSE @]
    /\ zrrs' \in IF fault' = "none"
                 THEN {Noted(z, elm') : z \in Seen(zrrs, call[c], elm)}
                 ELSE {zrrs}
    /\ UNCHANGED <<l, call, before, hooks, muxvars, wirevars, lookupvars, zonevars>>

\* Clear()
Clear(c) ==
    /\ Inside(c, "Clear")
    /\ init' = TRUE
    /\ hooklog' = Fire(Fire(hooklog, "beforeOnClear", 0, c, Made(elm)),
                       "beforeOnChange", KEventClear, c, Made(elm))
    /\ elm' = MakeMap
    /\ UNCHANGED <<ret, fault>>
    /\ Body(c)

\* Set(v)
Set(c) ==
    /\ Inside(c, "Set")
    /\ init' = TRUE
    /\ hooklog' = Fire(Fire(hooklog, "beforeOnSet", 0, c, Made(elm)),
                       "beforeOnChange", KEventSet, c, Made(elm))
    /\ elm' = call[c].v
    /\ UNCHANGED <<ret, fault>>
    /\ Body(c)

\* SetKey(k, v): the assignment panics on a nil map
SetKey(c) ==
    /\ Inside(c, "SetKey")
    /\ init' = TRUE
    /\ hooklog' = Fire(Fire(hooklog, "beforeOnSetKey", 0, c, Made(elm)),
                       "beforeOnChange", KEventClear, c, Made(elm))
    /\ IF Made(elm).nil
       THEN fault' = "assignment to entry in nil map" /\ UNCHANGED elm
       ELSE /\ elm' = MapPut(Made(elm), call[c].k, call[c].v)
            /\ UNCHANGED fault
    /\ UNCHANGED ret
    /\ Body(c)

\* Len()
RRSetLen(c) ==
    /\ Inside(c, "Len")
    /\ ret' = [ret EXCEPT ![c] = [n |-> Cardinality(DOMAIN elm.kv)]]
    /\ UNCHANGED <<elm, init, fault, hooklog>>
    /\ Body(c)

\* GetKey(k)
GetKey(c) ==
    /\ Inside(c, "GetKey")
    /\ ret' = [ret EXCEPT ![c] = MapGet(elm, call[c].k)]
    /\ UNCHANGED <<elm, init, fault, hooklog>>
    /\ Body(c)

\* DeleteKey(k): where the before hook would be called, onDeleteKey is
DeleteKey(c) ==
    /\ Inside(c, "DeleteKey")
    /\ hooklog' = Fire(Fire(hooklog, "onDeleteKey", 0, c, elm),
                       "beforeOnChange", KEventClear, c, elm)
    /\ elm' = MapDelete(elm, call[c].k)
    /\ UNCHANGED <<init, ret, fault>>
    /\ Body(c)

\* DeleteRecordInKey(k, r): a match is cut out of the stored slice and the
\* call returns, no before hook called; without a match the before hooks
\* are called and el.m[k] = New is reached, New being what el.m[k] read
\* (nil for an absent key)
DeleteRecordInKey(c) ==
    /\ Inside(c, "DeleteRecordInKey")
    /\ LET k == call[c].k
           r == call[c].r
           old == MapGet(elm, k).r
           i == FirstMatch(Recs(old, r.Type), r, 1)
           fired == Fire(Fire(hooklog, "beforeOnDeleteKeyInRecord", 0, c, elm),
                         "beforeOnChange", KEventClear, c, elm)
       IN  IF i = -1
           THEN fault' = "interface conversion" /\ UNCHANGED <<elm, hooklog>>
           ELSE IF i > 0
           THEN /\ elm' = MapPut(elm, k,
                            TypePut(old, r.Type, RemoveAt(old[r.Type], i)))
                /\ UNCHANGED <<fault, hooklog>>
           ELSE IF elm.nil
           THEN /\ fault' = "assignment to entry in nil map"
                /\ hooklog' = fired
                /\ UNCHANGED elm
           ELSE elm' = MapPut(elm, k, old) /\ hooklog' = fired /\ UNCHANGED fault
    /\ UNCHANGED <<init, ret>>
    /\ Body(c)

\* AppendRecordInKey(k, r): with no record of r's Type under k, New is a
\* fresh map that holds r alone; with one, New is the stored inner map and
\* the append to it shows in el.m before the before hooks are called
AppendRecordInKey(c) ==
    /\ Inside(c, "AppendRecordInKey")
    /\ init' = TRUE
    /\ LET k == call[c].k
           r == call[c].r
           old == MapGet(Made(elm), k).r
           New == IF Len(Recs(old, r.Type)) = 0
                  THEN [t \in {r.Type} |-> <<r>>]
                  ELSE TypePut(old, r.Type, Append(old[r.Type], r))
           seen == IF Len(Recs(old, r.Type)) = 0
                   THEN Made(elm)
                   ELSE MapPut(Made(elm), k, New)
       IN  /\ hooklog' = Fire(Fire(hooklog, "beforeOnAppendKeyInRecord", 0, c,
                                   seen),
                              "beforeOnChange", KEventClear, c, seen)
           /\ IF Made(elm).nil
              THEN fault' = "assignment to entry in nil map" /\ UNCHANGED elm
              ELSE elm' = MapPut(Made(elm), k, New) /\ UNCHANGED fault
    /\ UNCHANGED ret
    /\ Body(c)

\* the deferred deferOnChange(event, k, old) of a mutator, run once the
\* lock is released: onChange receives the tag and the map of that moment
deferOnChange(c) ==
    /\ Running /\ rpc[c] = "unlocked"
    /\ hooklog' = Fire(hooklog, "onChange", EventOf(call[c].op), c, elm)
    /\ rpc' = [rpc EXCEPT ![c] = "changed"]
    /\ UNCHANGED <<elm, init, l, call, ret, before, hooks,
                   muxvars, wirevars, fault, lookupvars, zonevars, zrrs>>

\* the deferred helper registered first, so run last: deferOnClear,
\* deferOnSet, deferOnSetKey, deferDeleteKey, deferOnDeleteKeyInRecord or
\* deferOnAppendKeyInRecord; the call returns
deferOnOp(c) ==
    /\ Running /\ rpc[c] = "changed"
    /\ hooklog' = Fire(hooklog, AfterHookOf(call[c].op), 0, c, elm)
    /\ rpc' = [rpc EXCEPT ![c] = "done"]
    /\ UNCHANGED <<elm, init, l, call, ret, before, hooks,
                   muxvars, wirevars, fault, lookupvars, zonevars, zrrs>>

\* the contents an RRSet may hold when the callers arrive: a zone's
\* records, or the nil map that Set(nil) left
RRSetInit ==
    /\ elm \in ZoneMaps
    /\ init \in IF elm.nil THEN BOOLEAN ELSE {TRUE}
    /\ l = 0
    /\ rpc = [c \in Callers |-> "idle"]
    /\ call = [c \in Callers |-> NoCall]
    /\ ret = [c \in Callers |-> NoRet]
    /\ before = elm
    /\ hooks \in {{}, SettableHooks}
    /\ hooklog = <<>>
    /\ LookupIdle /\ MuxIdle /\ ZoneIdle /\ WireIdle /\ fault = "none"

RRSetNext ==
    \/ \E c \in Callers, cl \in Calls : Lock(c, cl)
    \/ \E c \in Callers : Clear(c)
    \/ \E c \in Callers : Set(c)
    \/ \E c \in Callers : SetKey(c)
    \/ \E c \in Callers : RRSetLen(c)
    \/ \E c \in Callers : GetKey(c)
    \/ \E c \in Callers : DeleteKey(c)
    \/ \E c \in Callers : DeleteRecordInKey(c)
    \/ \E c \in Callers : AppendRecordInKey(c)
    \/ \E c \in Callers : Unlock(c)
    \/ \E c \in Callers : deferOnChange(c)
    \/ \E c \in Callers : deferOnOp(c)

RRSetSpec == RRSetInit /\ [][RRSetNext]_vars

\* ------------------------------------- Zone.ServeDNS beside the callers
\* ServeDNS holds the lock of the RRSet only inside GetKey.  What follows,
\* the read of rrs[q.Type] and of the records of that slice one by one, is
\* done without it, while DeleteRecordInKey and AppendRecordInKey write the
\* same map and the same array under the lock.

\* the question gets as far as the range over rrs[q.Type]
ReachesRange(q) ==
    /\ HasSuffix(q.Name, zone.Origin)
    /\ ~(q.Type = TypeSOA /\ q.Name = zone.Origin)
    /\ ~StripPanics(q.Name, zone.Origin)
    /\ MapGet(elm, Strip(q.Name, zone.Origin)).ok

\* rrs as GetKey(k) returns it to the loop serving a question of Type t
\* that has n answers before it
Got(k, t, n) ==
    [key |-> k, t |-> t, share |-> "map", map |-> <<>>, arr |-> <<>>, j |-> 0,
     from |-> n, stored |-> {Recs(MapGet(elm, k).r, t)}]

\* the loop takes its next question as far as rrs, ok := z.RRs.GetKey(dn)
ZoneGetKey ==
    /\ Running /\ zpc = "loop" /\ zi <= Len(query.Questions)
    /\ l = 0
    /\ IF ReachesRange(query.Questions[zi])
       THEN /\ zrrs' = Got(Strip(query.Questions[zi].Name, zone.Origin),
                           query.Questions[zi].Type, Len(zmsg.Answers))
            /\ zpc' = "range"
            /\ UNCHANGED <<zmsg, found, fault, zi>>
       ELSE /\ zmsg' = ServeQuestion([msg |-> zmsg, found |-> found,
                                      fault |-> "none"],
                                     query.Questions[zi]).msg
            /\ found' = ServeQuestion([msg |-> zmsg, found |-> found,
                                       fault |-> "none"],
                                      query.Questions[zi]).found
            /\ fault' = ServeQuestion([msg |-> zmsg, found |-> found,
                                       fault |-> "none"],
                                      query.Questions[zi]).fault
            /\ zi' = zi + 1
            /\ UNCHANGED <<zrrs, zpc>>
    /\ UNCHANGED <<zone, query, muxvars, wirevars, lookupvars, rrvars>>

\* a caller is inside an operation that writes the inner map rrs
WritesRrs ==
    /\ l # 0 /\ rpc[l] = "locked"
    /\ call[l].op \in {"DeleteRecordInKey", "AppendRecordInKey"}
    /\ Shares(zrrs, call[l].k)

\* the inner map that rrs is
RrsMap(zr) == IF zr.share = "none" THEN zr.map ELSE MapGet(elm, zr.key).r

\* range rrs[q.Type]: the slice is read from the inner map once; read
\* while a caller writes that map, the runtime may end the program
ZoneRange ==
    /\ Running /\ zpc = "range"
    /\ \/ /\ zrrs' = [zrrs EXCEPT !.arr = Recs(RrsMap(zrrs), zrrs.t),
                                  !.share = IF @ = "map" THEN "array" ELSE @,
                                  !.j = 1]
          /\ zpc' = "elem"
          /\ UNCHANGED fault
       \/ /\ WritesRrs
          /\ fault' = "concurrent map read and map write"
          /\ UNCHANGED <<zrrs, zpc>>
    /\ UNCHANGED <<zone, query, zmsg, zi, found, muxvars, wirevars,
                   lookupvars, rrvars>>

\* the answer for the record rr of the range, with its chase
Answered(q, rr) ==
    IF query.RecursionDesired /\ rr.Type = TypeCNAME
    THEN Chase([msg |-> Answer(zmsg, q.Name, zone.TTL, rr), found |-> TRUE,
                fault |-> "none"], q, rr)
    ELSE [msg |-> Answer(zmsg, q.Name, zone.TTL, rr), found |-> TRUE,
          fault |-> "none"]

\* one iteration of the range: the record is read from the array as it is
\* now; the GetKey of a chase takes the lock
ZoneElem ==
    /\ Running /\ zpc = "elem"
    /\ IF zrrs.j > Len(zrrs.arr)
       THEN /\ zi' = zi + 1
            /\ zpc' = "loop"
            /\ zrrs' = NoRrs
            /\ UNCHANGED <<zmsg, found, fault>>
       ELSE /\ (query.RecursionDesired /\ zrrs.arr[zrrs.j].Type = TypeCNAME)
                   => l = 0
            /\ zmsg' = Answered(query.Questions[zi], zrrs.arr[zrrs.j]).msg
            /\ fault' = Answered(query.Questions[zi], zrrs.arr[zrrs.j]).fault
            /\ found' = TRUE
            /\ zrrs' = [zrrs EXCEPT !.j = @ + 1]
            /\ UNCHANGED <<zi, zpc>>
    /\ UNCHANGED <<zone, query, muxvars, wirevars, lookupvars, rrvars>>

\* the calls made beside ServeDNS
RaceCalls ==
    { cl \in Calls : cl.op \in {"DeleteRecordInKey", "AppendRecordInKey"} }

\* the queries served beside them: one question for the key "a"
RaceQueries ==
    [Questions : { <<q>> : q \in [Name : {nameAB}, Type : {TypeA, TypeCNAME}] },
     RecursionDesired : BOOLEAN]

ZoneRaceInit ==
    /\ zone \in { z \in Zones : z.SOA # NilSOA }
    /\ query \in RaceQueries
    /\ zmsg = Message(0, query.RecursionDesired, TRUE, FALSE, FALSE, NoError,
                      query.Questions, <<>>, <<>>, <<>>)
    /\ zpc = "start" /\ zi = 0 /\ found = FALSE
    /\ zrrs = NoRrs
    /\ elm \in ZoneMaps
    /\ init = ~elm.nil /\ l = 0
    /\ rpc = [c \in Callers |-> "idle"]
    /\ call = [c \in Callers |-> NoCall]
    /\ ret = [c \in Callers |-> NoRet]
    /\ before = elm
    /\ hooks = {} /\ hooklog = <<>>
    /\ LookupIdle /\ MuxIdle /\ WireIdle /\ fault = "none"

ZoneRaceNext ==
    \/ ZoneAuthoritative
    \/ ZoneGetKey
    \/ ZoneRange
    \/ ZoneElem
    \/ ZoneReturn
    \/ \E c \in Callers, cl \in RaceCalls : Lock(c, cl)
    \/ \E c \in Callers : DeleteRecordInKey(c)
    \/ \E c \in Callers : AppendRecordInKey(c)
    \/ \E c \in Callers : Unlock(c)
    \/ \E c \in Callers : deferOnChange(c)
    \/ \E c \in Callers : deferOnOp(c)

ZoneRaceSpec == ZoneRaceInit /\ [][ZoneRaceNext]_vars

\* caller c has done the operation op and still holds the lock: elm is the
\* map the call leaves, before the map it found
Did(c, op) == rpc[c] = "unlock" /\ call[c].op = op

\* caller c has returned from the operation op
Returned(c, op) == rpc[c] = "done" /\ call[c].op = op

\* the map of key k in mp, empty when k is absent
AtKey(mp, k) == IF k \in DOMAIN mp.kv THEN mp.kv[k] ELSE <<>>

\* record r is stored under key k
Holds(k, r) ==
    \E t \in DOMAIN AtKey(elm, k) :
        \E j \in 1..Len(AtKey(elm, k)[t]) : AtKey(elm, k)[t][j] = r

\* C17: the RRSet operations are atomic under the one lock, so that two
\* concurrent AppendRecordInKey on the same key lose no record: when both
\* have returned, both records are stored under the key.
C17_NoLostRecord ==
    \A c, d \in Callers :
        (/\ c # d
         /\ Returned(c, "AppendRecordInKey")
         /\ Returned(d, "AppendRecordInKey")
         /\ call[c].k = call[d].k) =>
            Holds(call[c].k, call[c].r) /\ Holds(call[d].k, call[d].r)

\* the Types with a record under key k before or after the call
TypesAt(k) == DOMAIN AtKey(before, k) \cup DOMAIN AtKey(elm, k)

\* every key but k is as it was before the call
OtherKeysSame(k) ==
    /\ DOMAIN elm.kv \ {k} = DOMAIN before.kv \ {k}
    /\ \A x \in DOMAIN elm.kv \ {k} : elm.kv[x] = before.kv[x]

\* the records of every Type but t under k are as they were before the call
OtherTypesSame(k, t) ==
    \A x \in TypesAt(k) \ {t} :
        Recs(AtKey(elm, k), x) = Recs(AtKey(before, k), x)

\* C18: AppendRecordInKey(k, r) leaves under k, for r's Type, the previous
\* sequence followed by r, and leaves the records of every other Type under
\* k and of every other key unchanged.
C18_AppendFrame ==
    \A c \in Callers :
        Did(c, "AppendRecordInKey") =>
            LET k == call[c].k
                r == call[c].r
            IN  /\ Recs(AtKey(elm, k), r.Type) =
                       Append(Recs(AtKey(before, k), r.Type), r)
                /\ OtherTypesSame(k, r.Type)
                /\ OtherKeysSame(k)

\* the indices of the records of s that match r (same data)
MatchesOf(s, r) == { j \in 1..Len(s) : s[j].Data = r.Data }

\* C19: DeleteRecordInKey(k, r) removes the first record under k of r's
\* Type that matches r and leaves every other record, Type and key
\* unchanged and in order; when k is absent or holds no matching record the
\* RRSet (its keys, Len and every GetKey result) is unchanged.
C19_DeleteFrame ==
    \A c \in Callers :
        Did(c, "DeleteRecordInKey") =>
            LET k == call[c].k
                r == call[c].r
                was == Recs(AtKey(before, k), r.Type)
            IN  IF MatchesOf(was, r) = {}
                THEN /\ DOMAIN elm.kv = DOMAIN before.kv
                     /\ \A x \in DOMAIN elm.kv : elm.kv[x] = before.kv[x]
                ELSE /\ \E i \in MatchesOf(was, r) :
                            /\ \A j \in MatchesOf(was, r) : i <= j
                            /\ Recs(AtKey(elm, k), r.Type) =
                                   [j \in 1..(Len(was) - 1) |->
                                       IF j < i THEN was[j] ELSE was[j + 1]]
                     /\ OtherTypesSame(k, r.Type)
                     /\ OtherKeysSame(k)

\* C20: Clear, Set, SetKey and DeleteKey act on the RRSet as on a plain
\* map: Clear leaves no key, Set(v) leaves exactly v, SetKey(k, v) puts v at
\* k and DeleteKey(k) removes k, each leaving the other keys alone; GetKey(k)
\* returns (v, true) for the v at k and (nil, false) without it, and Len
\* returns the number of keys.
C20_PlainMap ==
    \A c \in Callers :
        /\ Did(c, "Clear") => DOMAIN elm.kv = {} /\ ~elm.nil
        /\ Did(c, "Set") => elm = call[c].v
        /\ Did(c, "SetKey") =>
               /\ DOMAIN elm.kv = DOMAIN before.kv \cup {call[c].k}
               /\ elm.kv[call[c].k] = call[c].v
               /\ OtherKeysSame(call[c].k)
        /\ Did(c, "DeleteKey") =>
               /\ DOMAIN elm.kv = DOMAIN before.kv \ {call[c].k}
               /\ OtherKeysSame(call[c].k)
        /\ Did(c, "GetKey") =>
               /\ ret[c].ok = (call[c].k \in DOMAIN elm.kv)
               /\ ret[c].ok => ret[c].r = elm.kv[call[c].k]
               /\ ~ret[c].ok => ret[c].r = <<>>
               /\ elm = before
        /\ Did(c, "Len") =>
               /\ ret[c].n = Cardinality({ k \in KeySet \cup DOMAIN elm.kv :
                                             MapGet(elm, k).ok })
               /\ elm = before

\* one caller has set a key and the other then deleted another key of a
\* map with two keys
C20_Witness ==
    \E c, d \in Callers :
        /\ Returned(c, "SetKey") /\ Did(d, "DeleteKey")
        /\ call[c].k # call[d].k
        /\ call[d].k \in DOMAIN before.kv
        /\ call[c].k \in DOMAIN elm.kv /\ elm.kv[call[c].k] = call[c].v
        /\ call[c].v # <<>>

\* the positions in the hook log of the calls hook h received from caller c
CallsOf(h, c) ==
    {i \in 1..Len(hooklog) : hooklog[i].hook = h /\ hooklog[i].c = c}

\* C21: for Clear and Set, once onChange has run for a call, the
\* operation's own after hook (onClear, onSet), when one is registered, has
\* already run for that call
C21_HookOrder ==
    \A c \in Callers :
        (/\ call[c].op \in {"Clear", "Set"}
         /\ AfterHookOf(call[c].op) \in hooks)
        => \A i \in CallsOf("onChange", c) :
               \E j \in CallsOf(AfterHookOf(call[c].op), c) : j < i

\* ---------------------------------------------------------------------
\* The wire codec: Message.Pack and Message.Unpack with the header, the
\* questions, the resources and the records A, AAAA and CNAME.  A byte
\* slice is a sequence of numbers 0..255; a slice b[p:] of a message is
\* the message with the position p (from 1) where the slice starts.
\* ---------------------------------------------------------------------

\* the names, records and messages the codec is run on have at most this
\* many records in a section
MaxSection == 2

\* uint16(x) of an int, and x & 0x0F
Uint16(x) == x % 65536
Low4(x) == x % 16

\* the two octets read low octet first
GetUint16Little(b, p) == b[p] + b[p + 1] * 256

\* nbo.PutUint16 and nbo.Uint16 on the slice that starts at position p
PutUint16(v) == <<v \div 256, v % 256>>
GetUint16(b, p) == b[p] * 256 + b[p + 1]

\* a | b and a & b on 16-bit words, bit by bit from bit n up
RECURSIVE Or16(_, _, _)
Or16(a, b, n) ==
    IF n > 15 THEN 0
    ELSE (IF (a \div 2^n) % 2 = 1 \/ (b \div 2^n) % 2 = 1 THEN 2^n ELSE 0)
         + Or16(a, b, n + 1)

RECURSIVE And16(_, _, _)
And16(a, b, n) ==
    IF n > 15 THEN 0
    ELSE (IF (a \div 2^n) % 2 = 1 /\ (b \div 2^n) % 2 = 1 THEN 2^n ELSE 0)
         + And16(a, b, n + 1)

headerBitQR == 2^15
headerBitAA == 2^10
headerBitTC == 2^9
headerBitRD == 2^8
headerBitRA == 2^7

\* return nil, err
Fail(e) == [err |-> e, b |-> <<>>]

\* uint16(opcode) << 10, one bit short
OpcodeBits10(opcode) == Uint16(opcode * 2^10)

\* uint16(opcode) << 11
OpcodeBits(opcode) == Uint16(opcode * 2^11)

\* Message.packHeader, for a message m whose sections hold qd, an, ns and ar
\* entries; the fourth count is guarded by the test of the third
packHeader(b, m, qd, an, ns, ar) ==
    LET id == Uint16(m.ID)
        opcode == Low4(m.OpCode)
        rcode == Low4(m.RCode)
        bits0 == Or16(OpcodeBits(opcode), rcode, 0)
        bits1 == IF m.Response THEN Or16(bits0, headerBitQR, 0) ELSE bits0
        bits2 == IF m.RecursionAvailable
                 THEN Or16(bits1, headerBitRA, 0) ELSE bits1
        bits3 == IF m.RecursionDesired
                 THEN Or16(bits2, headerBitRD, 0) ELSE bits2
        bits4 == IF m.Truncated THEN Or16(bits3, headerBitTC, 0) ELSE bits3
        bits == IF m.Authoritative THEN Or16(bits4, headerBitAA, 0) ELSE bits4
        qdcount == Uint16(qd)
        ancount == Uint16(an)
        nscount == Uint16(ns)
        arcount == Uint16(ar)
    IN  IF id # m.ID THEN Fail("FieldOverflow")
        ELSE IF opcode # m.OpCode THEN Fail("FieldOverflow")
        ELSE IF rcode # m.RCode THEN Fail("FieldOverflow")
        ELSE IF qdcount # qd THEN Fail("TooManyQuestions")
        ELSE IF ancount # an THEN Fail("TooManyAnswers")
        ELSE IF nscount # ns THEN Fail("TooManyAuthorities")
        ELSE IF nscount # ns THEN Fail("TooManyAuthorities")
        ELSE [err |-> "none",
              b |-> b \o PutUint16(id) \o PutUint16(bits)
                      \o PutUint16(qdcount) \o PutUint16(ancount)
                      \o PutUint16(nscount) \o PutUint16(arcount)]

\* the fields of the header of a Message
HeaderOf(id, qr, op, aa, tc, rd, ra, rc) ==
    [ID |-> id, Response |-> qr, OpCode |-> op, Authoritative |-> aa,
     Truncated |-> tc, RecursionDesired |-> rd, RecursionAvailable |-> ra,
     RCode |-> rc]

\* Message.unpackHeader on b: the header fields, the capacities made for
\* the four sections, and the position of b[12:]
unpackHeader(b) ==
    IF Len(b) < 12
    THEN [err |-> "ResourceLen"]
    ELSE LET id == GetUint16(b, 1)
             bits == GetUint16(b, 3)
         IN  [err |-> "none",
              m |-> HeaderOf(id,
                             And16(bits, headerBitQR, 0) > 0,
                             Low4(bits \div 2^11),
                             And16(bits, headerBitAA, 0) > 0,
                             And16(bits, headerBitTC, 0) > 0,
                             And16(bits, headerBitRD, 0) > 0,
                             And16(bits, headerBitRA, 0) > 0,
                             Low4(bits)),
              qdcount |-> GetUint16(b, 5),
              ancount |-> GetUint16(b, 7),
              nscount |-> GetUint16(b, 9),
              arcount |-> GetUint16(b, 11),
              next |-> 13]

\* the octet of a character of a name, and back
Ord(ch) == CASE ch = "a" -> 97 [] ch = "b" -> 98 [] ch = "c" -> 99
Chr(o) == CASE o = 97 -> "a" [] o = 98 -> "b" [] o = 99 -> "c" [] OTHER -> "?"

\* where the first label of a name ends
FirstDot(name) ==
    CHOOSE i \in 1..Len(name) :
        name[i] = "." /\ \A j \in 1..(i - 1) : name[j] # "."

\* a Compressor: on is FALSE for compressor{} without table; tbl maps a
\* name suffix to the offset it was packed at
NoCompressor == [on |-> FALSE, tbl |-> <<>>]
NewCompressor == [on |-> TRUE, tbl |-> <<>>]

\* Compressor.Pack(b, name): for each suffix a pointer to where it was
\* packed before, or its first label, recorded, and then the rest
RECURSIVE compressorPack(_, _, _)
compressorPack(b, name, com) ==
    IF name = <<>> \/ name = <<".">>
    THEN [err |-> "none", b |-> Append(b, 0), com |-> com]
    ELSE IF com.on /\ name \in DOMAIN com.tbl /\ com.tbl[name] < 2^14
    THEN [err |-> "none",
          b |-> b \o <<192 + com.tbl[name] \div 256, com.tbl[name] % 256>>,
          com |-> com]
    ELSE LET d == FirstDot(name)
             label == [i \in 1..(d - 1) |-> Ord(name[i])]
         IN  compressorPack(b \o <<d - 1>> \o label,
                            SubSeq(name, d + 1, Len(name)),
                            IF com.on
                            THEN [com EXCEPT !.tbl = (name :> Len(b)) @@ @]
                            ELSE com)

\* Compressor.Length(name): the octets Pack would emit, the table untouched
compressorLength(name, com) == Len(compressorPack(<<>>, name, com).b)

\* Decompressor.Unpack on the slice of msg that starts at p: the name and
\* the position after it; a pointer must point before itself
RECURSIVE decompressorLabels(_, _)
decompressorLabels(msg, p) ==
    IF p > Len(msg) THEN [err |-> "BaseLen"]
    ELSE IF msg[p] = 0 THEN [err |-> "none", name |-> <<>>, next |-> p + 1]
    ELSE IF msg[p] >= 192
    THEN IF p + 1 > Len(msg) THEN [err |-> "BaseLen"]
         ELSE LET off == (msg[p] - 192) * 256 + msg[p + 1]
              IN  IF off >= p - 1 THEN [err |-> "InvalidPointer"]
                  ELSE LET r == decompressorLabels(msg, off + 1)
                       IN  IF r.err # "none" THEN r
                           ELSE [r EXCEPT !.next = p + 2]
    ELSE IF msg[p] >= 64 THEN [err |-> "ReservedSegPrefix"]
    ELSE IF p + msg[p] > Len(msg) THEN [err |-> "CalcLen"]
    ELSE LET r == decompressorLabels(msg, p + 1 + msg[p])
         IN  IF r.err # "none" THEN r
             ELSE [r EXCEPT !.name =
                      [i \in 1..msg[p] |-> Chr(msg[p + i])] \o <<".">> \o @]

decompressorUnpack(msg, p) ==
    LET r == decompressorLabels(msg, p)
    IN  IF r.err = "none" /\ r.name = <<>> THEN [r EXCEPT !.name = <<".">>]
        ELSE r

\* a time.Duration: its sign, its whole seconds hi * 65536 + lo in two
\* 16-bit halves, and whether a part of a second is left over
Dur(neg, hi, lo, part) == [neg |-> neg, hi |-> hi, lo |-> lo, part |-> part]

\* d / time.Second: the division truncates toward zero
Seconds(d) ==
    [neg |-> d.neg /\ (d.hi # 0 \/ d.lo # 0), hi |-> d.hi, lo |-> d.lo]

\* the count of seconds kept as it is, not cut to 32 bits
Uint32Same(s) == [hi |-> s.hi, lo |-> s.lo]

\* uint32(s) of a count of seconds: the low 32 bits of its two's complement
Uint32(s) ==
    LET h == s.hi % 65536
    IN  IF ~s.neg THEN [hi |-> h, lo |-> s.lo]
        ELSE IF s.lo = 0 THEN [hi |-> (65536 - h) % 65536, lo |-> 0]
        ELSE [hi |-> 65535 - h, lo |-> 65536 - s.lo]

\* time.Duration(ttl) == s
SameSeconds(ttl, s) == ~s.neg /\ s.hi = ttl.hi /\ s.lo = ttl.lo

\* nbo.PutUint32, nbo.Uint32, and time.Duration(u) * time.Second
PutUint32(v) == PutUint16(v.hi) \o PutUint16(v.lo)
GetUint32(b, p) == [hi |-> GetUint16(b, p), lo |-> GetUint16(b, p + 2)]
FromSeconds(u) == Dur(FALSE, u.hi, u.lo, FALSE)

\* net.IP.To4: the address itself when it has 4 bytes, the last 4 bytes of
\* an IPv4-mapped address of 16 bytes, nil for every other address
To4(ip) ==
    IF Len(ip) = 4 THEN ip
    ELSE IF /\ Len(ip) = 16
            /\ \A i \in 1..10 : ip[i] = 0
            /\ ip[11] = 255 /\ ip[12] = 255
    THEN SubSeq(ip, 13, 16)
    ELSE <<>>

\* Record.Length of the records A, AAAA and CNAME
RecordLength(r, com) ==
    CASE r.Type = TypeA -> 4
      [] r.Type = TypeAAAA -> 16
      [] r.Type = TypeCNAME -> compressorLength(r.Data, com)

\* Record.Pack of the records A, AAAA and CNAME
RecordPack(b, r, com) ==
    CASE r.Type = TypeA ->
           IF Len(r.Data) < 4 THEN Fail("ResourceLen")
           ELSE [err |-> "none", b |-> b \o To4(r.Data), com |-> com]
      [] r.Type = TypeAAAA ->
           IF Len(r.Data) # 16 THEN Fail("ResourceLen")
           ELSE [err |-> "none", b |-> b \o r.Data, com |-> com]
      [] r.Type = TypeCNAME -> compressorPack(b, r.Data, com)

\* NewRecordByType has a constructor for these types, among others
KnownTypes == {TypeA, TypeAAAA, TypeCNAME}

\* the record unpacked from all that is left of msg, not from the window
RecordUnpackAll(msg, p, end, t) ==
    IF Len(msg) + 1 - p < 4 THEN [err |-> "ResourceLen"]
    ELSE [err |-> "none", rec |-> Rec(t, SubSeq(msg, p, p + 3)), next |-> p + 4]

\* Record.Unpack of a new record of type t on the window of msg from p up
\* to end (end excluded)
RecordUnpack(msg, p, end, t) ==
    CASE t = TypeA ->
           IF end - p < 4 THEN [err |-> "ResourceLen"]
           ELSE [err |-> "none", rec |-> Rec(TypeA, SubSeq(msg, p, p + 3)),
                 next |-> p + 4]
      [] t = TypeAAAA ->
           IF end - p < 16 THEN [err |-> "ResourceLen"]
           ELSE [err |-> "none", rec |-> Rec(TypeAAAA, SubSeq(msg, p, p + 15)),
                 next |-> p + 16]
      [] t = TypeCNAME ->
           LET n == decompressorUnpack(SubSeq(msg, 1, end - 1), p)
           IN  IF n.err # "none" THEN n
               ELSE [err |-> "none", rec |-> CName(n.name), next |-> n.next]

\* Question.Pack
QuestionPack(b, q, com) ==
    LET n == compressorPack(b, q.Name, com)
    IN  IF n.err # "none" THEN Fail(n.err)
        ELSE [n EXCEPT !.b = @ \o PutUint16(Uint16(q.Type))
                                \o PutUint16(Uint16(q.Class))]

\* Question.Unpack on the slice of msg that starts at p
QuestionUnpack(msg, p) ==
    LET n == decompressorUnpack(msg, p)
    IN  IF n.err # "none" THEN n
        ELSE IF Len(msg) - n.next + 1 < 4 THEN [err |-> "ResourceLen"]
        ELSE [err |-> "none",
              item |-> [Name |-> n.name, Type |-> GetUint16(msg, n.next),
                        Class |-> GetUint16(msg, n.next + 2)],
              next |-> n.next + 4]

\* a Resource of a message on the wire
WireResource(n, c, ttl, r) == [Name |-> n, Class |-> c, TTL |-> ttl, Rec |-> r]

\* Resource.Pack
ResourcePack(b, r, com) ==
    LET n == compressorPack(b, r.Name, com)
        rtype == r.Rec.Type
        ttl == Uint32(Seconds(r.TTL))
        rlen == RecordLength(r.Rec, n.com)
        rdatalen == Uint16(rlen)
    IN  IF n.err # "none" THEN Fail(n.err)
        ELSE IF ~SameSeconds(ttl, Seconds(r.TTL)) THEN Fail("FieldOverflow")
        ELSE IF rdatalen # rlen THEN Fail("FieldOverflow")
        ELSE RecordPack(n.b \o PutUint16(Uint16(rtype))
                            \o PutUint16(Uint16(r.Class))
                            \o PutUint32(ttl) \o PutUint16(rdatalen),
                        r.Rec, n.com)

\* Resource.Unpack on the slice of msg that starts at p
ResourceUnpack(msg, p) ==
    LET n == decompressorUnpack(msg, p)
    IN  IF n.err # "none" THEN n
        ELSE IF Len(msg) - n.next + 1 < 10 THEN [err |-> "ResourceLen"]
        ELSE LET rtype == GetUint16(msg, n.next)
                 rdlen == GetUint16(msg, n.next + 8)
                 at == n.next + 10
             IN  IF Len(msg) - at + 1 < rdlen THEN [err |-> "ResourceLen"]
                 ELSE IF rtype \notin KnownTypes THEN [err |-> "UnknownType"]
                 ELSE LET rec == RecordUnpack(msg, at, at + rdlen, rtype)
                      IN  IF rec.err # "none" THEN [err |-> rec.err]
                          ELSE IF at + rdlen - rec.next > 0
                          THEN [err |-> "ResTooLong"]
                          ELSE [err |-> "none",
                                item |-> WireResource(
                                    n.name, GetUint16(msg, n.next + 2),
                                    FromSeconds(GetUint32(msg, n.next + 4)),
                                    rec.rec),
                                next |-> at + rdlen]

\* a Message of the codec: the header fields h and the four sections
WireMessage(h, qs, an, ns, ar) ==
    [ID |-> h.ID, Response |-> h.Response, OpCode |-> h.OpCode,
     Authoritative |-> h.Authoritative, Truncated |-> h.Truncated,
     RecursionDesired |-> h.RecursionDesired,
     RecursionAvailable |-> h.RecursionAvailable, RCode |-> h.RCode,
     Questions |-> qs, Answers |-> an, Authorities |-> ns, Additionals |-> ar]

\* for _, q := range m.Questions { b, err = q.Pack(b, com) }, from the
\* i-th question on; acc is what the packing before returned
RECURSIVE PackQuestions(_, _, _)
PackQuestions(acc, qs, i) ==
    IF acc.err # "none" \/ i > Len(qs) THEN acc
    ELSE PackQuestions(QuestionPack(acc.b, qs[i], acc.com), qs, i + 1)

\* for _, r := range rs { b, err = r.Pack(b, com) }
RECURSIVE PackResources(_, _, _)
PackResources(acc, rs, i) ==
    IF acc.err # "none" \/ i > Len(rs) THEN acc
    ELSE PackResources(ResourcePack(acc.b, rs[i], acc.com), rs, i + 1)

\* Message.Pack(nil, compress)
MessagePack(m, compress) ==
    LET com == IF compress THEN NewCompressor ELSE NoCompressor
        h == packHeader(<<>>, m, Len(m.Questions), Len(m.Answers),
                        Len(m.Authorities), Len(m.Additionals))
    IN  IF h.err # "none" THEN h
        ELSE LET qs == PackQuestions([err |-> "none", b |-> h.b, com |-> com],
                                     m.Questions, 1)
                 rs == PackResources(qs, m.Answers \o m.Authorities
                                           \o m.Additionals, 1)
             IN  IF rs.err # "none" THEN Fail(rs.err)
                 ELSE [err |-> "none", b |-> rs.b]

\* one loop of Message.Unpack: n more questions, or resources, are
\* unpacked from msg and appended; acc is what the unpacking before left
Appended(acc, x) ==
    IF x.err # "none" THEN [err |-> x.err]
    ELSE [err |-> "none", items |-> Append(acc.items, x.item), next |-> x.next]

RECURSIVE UnpackQuestions(_, _, _)
UnpackQuestions(msg, acc, n) ==
    IF acc.err # "none" \/ n = 0 THEN acc
    ELSE UnpackQuestions(msg, Appended(acc, QuestionUnpack(msg, acc.next)),
                         n - 1)

RECURSIVE UnpackResources(_, _, _)
UnpackResources(msg, acc, n) ==
    IF acc.err # "none" \/ n = 0 THEN acc
    ELSE UnpackResources(msg, Appended(acc, ResourceUnpack(msg, acc.next)),
                         n - 1)

\* a section with no entry yet, to be unpacked from position p on
From(p) == [err |-> "none", items |-> <<>>, next |-> p]

\* what the loop over one section adds to the sections unpacked before
WithSection(acc, sec) ==
    IF sec.err # "none" THEN [err |-> sec.err]
    ELSE [err |-> "none", secs |-> Append(acc.secs, sec.items),
          next |-> sec.next]

\* the four loops of Message.Unpack from the k-th on, over sections of the
\* capacities caps; the first error ends the unpacking
RECURSIVE UnpackSections(_, _, _, _)
UnpackSections(b, caps, acc, k) ==
    IF acc.err # "none" \/ k > Len(caps) THEN acc
    ELSE UnpackSections(b, caps,
             WithSection(acc,
                 IF k = 1 THEN UnpackQuestions(b, From(acc.next), caps[k])
                 ELSE UnpackResources(b, From(acc.next), caps[k])),
             k + 1)

\* Message.Unpack(b) once the header h is unpacked: the message and the
\* unused bytes
UnpackBody(b, h, r) ==
    IF r.err # "none" THEN [err |-> r.err]
    ELSE [err |-> "none",
          m |-> WireMessage(h.m, r.secs[1], r.secs[2], r.secs[3], r.secs[4]),
          rest |-> SubSeq(b, r.next, Len(b))]

UnpackAfterHeader(b, h) ==
    IF h.err # "none" THEN [err |-> h.err]
    ELSE UnpackBody(b, h,
             UnpackSections(b, <<h.qdcount, h.ancount, h.nscount, h.arcount>>,
                            [err |-> "none", secs |-> <<>>, next |-> h.next],
                            1))

\* Message.Unpack(b)
MessageUnpack(b) == UnpackAfterHeader(b, unpackHeader(b))

\* the headers the codec is run on: IDs, opcodes and rcodes at and beyond
\* the ends of their fields, and section lengths up to one more than a
\* 16-bit count holds
HeaderIDs == {-1, 0, 16962, 65535, 65536}
HeaderCodes == {0, 3, 15, 16}
WireHeaders ==
    { HeaderOf(id, qr, op, aa, tc, rd, ra, rc) :
        id \in HeaderIDs, qr \in BOOLEAN, op \in HeaderCodes, aa \in BOOLEAN,
        tc \in BOOLEAN, rd \in BOOLEAN, ra \in BOOLEAN, rc \in HeaderCodes }
SectionCounts ==
    {<<0, 0, 0, 0>>, <<1, 2, 3, 4>>, <<65535, 65535, 65535, 65535>>,
     <<65536, 0, 0, 0>>, <<0, 65536, 0, 0>>, <<0, 0, 65536, 0>>,
     <<0, 0, 0, 65536>>}
HeaderJobs ==
    { [kind |-> "header", m |-> h, n |-> n] :
        h \in WireHeaders, n \in SectionCounts }

\* the resources Resource.Pack is run on: TTLs around zero and around
\* 2^32 seconds, addresses of 3, 4, 5 and 16 bytes
IPv4 == <<10, 42, 0, 1>>
IPv4Mapped == <<0, 0, 0, 0, 0, 0, 0, 0, 0, 0, 255, 255, 10, 42, 0, 1>>
IPv6 == <<222, 173, 190, 239, 0, 0, 0, 0, 0, 0, 0, 0, 0, 0, 0, 1>>
WireRecords ==
    {Rec(TypeA, <<10, 42, 0>>), Rec(TypeA, IPv4), Rec(TypeA, IPv4 \o <<7>>),
     Rec(TypeA, IPv4Mapped), Rec(TypeA, IPv6), Rec(TypeAAAA, IPv6),
     Rec(TypeAAAA, IPv4), CName(nameCB), CName(nameAB)}
WireTTLs ==
    { Dur(neg, hi, lo, part) :
        neg \in BOOLEAN, hi \in {0, 1, 65535, 65536}, lo \in {0, 30, 65535},
        part \in BOOLEAN }
ResourceJobs ==
    { [kind |-> "resource", r |-> WireResource(nameAB, 1, ttl, r),
       compress |-> c] :
        ttl \in WireTTLs, r \in WireRecords, c \in BOOLEAN }

\* the buffers Resource.Unpack is run on: the name "a.", a fixed part that
\* is whole or cut short, a Type with or without constructor, and an
\* RDLENGTH that is less than, equal to or more than the data that follow
WireData ==
    {<<>>, <<10, 42, 0>>, IPv4, IPv4 \o <<7>>, <<1, 98, 0>>, <<1, 98, 0, 9>>,
     <<192, 0>>, <<192, 0, 0>>}
UnpackJobs ==
    { [kind |-> "unpack",
       b |-> <<1, 97, 0>> \o PutUint16(t) \o <<0, 1, 0, 0, 0, 30>>
               \o PutUint16(n) \o d] :
        t \in {TypeA, TypeCNAME, 99}, n \in 0..5, d \in WireData }
    \cup { [kind |-> "unpack", b |-> SubSeq(<<1, 97, 0, 0, 1, 0, 1, 0, 0>>, 1, k)] :
             k \in {2, 3, 9} }

\* the messages Message.Pack and Message.Unpack are run on: header fields
\* in range, names of one or two labels, TTLs of whole seconds that fit 32
\* bits, A records of 4 bytes and AAAA records of 16
LegalHeaders ==
    { HeaderOf(16962, qr, op, qr, FALSE, TRUE, qr, IF qr THEN 3 ELSE 0) :
        qr \in BOOLEAN, op \in {0, 15} }
LegalQuestions ==
    {[Name |-> nameAB, Type |-> TypeA, Class |-> 1],
     [Name |-> nameCB, Type |-> TypeAAAA, Class |-> 1]}
LegalResources ==
    {WireResource(nameAB, 1, Dur(FALSE, 0, 30, FALSE), Rec(TypeA, IPv4)),
     WireResource(nameAB, 1, Dur(FALSE, 65535, 65535, FALSE), CName(nameCB)),
     WireResource(nameCB, 1, Dur(FALSE, 1, 0, FALSE), Rec(TypeAAAA, IPv6))}
LegalMessages ==
    { WireMessage(h, qs, an, ns, ar) :
        h \in LegalHeaders,
        qs \in SeqsUpTo(LegalQuestions, MaxSection),
        an \in SeqsUpTo(LegalResources, MaxSection),
        ns \in SeqsUpTo({WireResource(nameB, 1, Dur(FALSE, 0, 0, FALSE),
                                      CName(nameAB))}, 1),
        ar \in SeqsUpTo({WireResource(<<".">>, 1, Dur(FALSE, 0, 1, FALSE),
                                      Rec(TypeA, IPv4))}, 1) }
MessageJobs ==
    { [kind |-> "message", m |-> m, compress |-> c] :
        m \in LegalMessages, c \in BOOLEAN }

\* the rest of the model stands still while the codec runs
CodecStep(k, from, to) ==
    /\ cjob.kind = k /\ cpc = from /\ cpc' = to
    /\ UNCHANGED <<cjob, streamvars, muxvars, fault, lookupvars, zonevars, zrrs,
                   rrvars>>

DoPackHeader ==
    /\ CodecStep("header", "ready", "packed")
    /\ cout' = packHeader(<<>>, cjob.m, cjob.n[1], cjob.n[2], cjob.n[3],
                          cjob.n[4])
    /\ UNCHANGED cback

DoUnpackHeader ==
    /\ CodecStep("header", "packed", "done")
    /\ cout.err = "none"
    /\ cback' = unpackHeader(cout.b)
    /\ UNCHANGED cout

DoPackResource ==
    /\ CodecStep("resource", "ready", "packed")
    /\ cout' = ResourcePack(<<>>, cjob.r,
                            IF cjob.compress THEN NewCompressor
                            ELSE NoCompressor)
    /\ UNCHANGED cback

DoUnpackResource ==
    /\ CodecStep("unpack", "ready", "done")
    /\ cback' = ResourceUnpack(cjob.b, 1)
    /\ UNCHANGED cout

DoPackMessage ==
    /\ CodecStep("message", "ready", "packed")
    /\ cout' = MessagePack(cjob.m, cjob.compress)
    /\ UNCHANGED cback

DoUnpackMessage ==
    /\ CodecStep("message", "packed", "done")
    /\ cout.err = "none"
    /\ cback' = MessageUnpack(cout.b)
    /\ UNCHANGED cout

CodecInit ==
    /\ \/ cjob \in HeaderJobs
       \/ cjob \in ResourceJobs
       \/ cjob \in UnpackJobs
       \/ cjob \in MessageJobs
    /\ cout = NoJob /\ cback = NoJob /\ cpc = "ready"
    /\ StreamIdle /\ LookupIdle /\ MuxIdle /\ ZoneIdle /\ RRSetIdle
    /\ fault = "none"

CodecNext ==
    \/ DoPackHeader
    \/ DoUnpackHeader
    \/ DoPackResource
    \/ DoUnpackResource
    \/ DoPackMessage
    \/ DoUnpackMessage

CodecSpec == CodecInit /\ [][CodecNext]_vars

\* ---------------------------------------------------------------------
\* The sessions: streamSession and packetSession with Write, which
\* dispatches a query to a session.do goroutine, and Read, which receives
\* the result of one of them over msgerrc and hands it out as bytes.
\* ---------------------------------------------------------------------

\* at most this many calls of Write and of Read on a session
MaxWrites == 2
MaxReads == 3

\* the queries written to a session, and the reply a server gives
Query1 == WireMessage(HeaderOf(1, FALSE, 0, FALSE, FALSE, TRUE, FALSE, 0),
                      <<>>, <<>>, <<>>, <<>>)
Query2 == WireMessage(HeaderOf(2, FALSE, 0, FALSE, FALSE, TRUE, FALSE, 0),
                      <<[Name |-> nameAB, Type |-> TypeA, Class |-> 1]>>,
                      <<>>, <<>>, <<>>)
ReplyTo(q) ==
    [q EXCEPT !.Response = TRUE,
              !.Answers = [i \in 1..Len(q.Questions) |->
                             WireResource(q.Questions[i].Name, 1,
                                          Dur(FALSE, 0, 30, FALSE),
                                          Rec(TypeA, IPv4))]]

\* Client.do(conn, query): a reply, or an error
clientDo(q) ==
    {[msg |-> ReplyTo(q), err |-> "none"], [msg |-> NoMsg, err |-> "timeout"]}

\* Message.AppendPack(b[:0]): the packed message
AppendPack(m) == MessagePack(m, TRUE)

\* a message body behind its 2-octet length
Frame(body) == PutUint16(Len(body)) \o body

\* the buffers handed to Write: too short for a length, whole frames, a
\* frame with a byte after the message, frames whose length says more or
\* less than what follows, two frames at once, frames whose body is cut
\* or announces a question that is not there, and the bare bodies
Body1 == MessagePack(Query1, FALSE).b
Body2 == MessagePack(Query2, FALSE).b
NoQuestion == [Body1 EXCEPT ![6] = 1]
StreamBuffers ==
    {<<>>, <<0>>, Frame(Body1), Frame(Body2), Frame(Body1 \o <<9>>),
     PutUint16(Len(Body1) + 1) \o Body1, PutUint16(Len(Body1) - 1) \o Body1,
     Frame(Body1) \o Frame(Body1), Frame(SubSeq(Body1, 1, 3)),
     Frame(NoQuestion)}
PacketBuffers == {Body1, Body2, SubSeq(Body1, 1, 3), NoQuestion}

\* the sizes of the buffers handed to Read
ReadSizes == {2, 8, 64}

\* the end of either Write once Unpack has returned msg: 0 and the error,
\* or len(b) and the message of the query that go s.do(query) dispatches
Dispatch(b, msg) ==
    IF msg.err # "none" THEN [n |-> 0, err |-> msg.err]
    ELSE [n |-> Len(b), err |-> "none", msg |-> msg.m]

\* streamSession.Write(b) without the test of the length
streamSessionWriteAny(b) == Dispatch(b, MessageUnpack(SubSeq(b, 3, Len(b))))

\* streamSession.Write(b)
streamSessionWrite(b) ==
    IF Len(b) < 2 THEN [n |-> 0, err |-> "ErrShortWrite"]
    ELSE IF Len(b) - 2 # b[1] * 256 + b[2]
    THEN [n |-> 0, err |-> "ErrShortWrite"]
    ELSE Dispatch(b, MessageUnpack(SubSeq(b, 3, Len(b))))

\* packetSession.Write(b)
packetSessionWrite(b) == Dispatch(b, MessageUnpack(b))

\* streamSession.read(b) for a buffer of n bytes: the bytes copied and
\* what s.rbuf is assigned
read(rb, n) ==
    IF Len(rb) > n
    THEN [b |-> SubSeq(rb, 1, n), err |-> "none",
          rbuf |-> SubSeq(rb, n + 1, Len(rb))]
    ELSE [b |-> rb, err |-> "none", rbuf |-> <<>>]

\* streamSession.Read(b) for a buffer of n bytes once the message is
\* packed into s.rbuf: the length goes to b[0] and b[1], read fills b[2:]
ReadPacked(n, packed) ==
    IF packed.err # "none" THEN [b |-> <<>>, err |-> packed.err, rbuf |-> <<>>]
    ELSE IF n = 2
    THEN [b |-> PutUint16(Len(packed.b)), err |-> "none", rbuf |-> packed.b]
    ELSE [read(packed.b, n - 2) EXCEPT !.b = PutUint16(Len(packed.b)) \o @]

\* streamSession.Read(b) for a buffer of n bytes once recv has returned
\* got: the bytes put into b and what s.rbuf is assigned
streamSessionRead(n, got) ==
    IF got.err # "none" THEN [b |-> <<>>, err |-> got.err, rbuf |-> <<>>]
    ELSE ReadPacked(n, AppendPack(got.msg))

\* packetSession.Read(b) for a buffer of n bytes once the message is
\* packed into it
PacketPacked(n, buf) ==
    IF buf.err # "none" THEN [b |-> <<>>, err |-> buf.err]
    ELSE IF Len(buf.b) > n
    THEN [b |-> SubSeq(buf.b, 1, n), err |-> "ErrShortBuffer"]
    ELSE [b |-> buf.b, err |-> "none"]

\* packetSession.Read(b) for a buffer of n bytes once recv has returned got
packetSessionRead(n, got) ==
    IF got.err # "none" THEN [b |-> <<>>, err |-> got.err]
    ELSE PacketPacked(n, AppendPack(got.msg))

\* the rest of the model stands still while a session is used
SessionStep ==
    /\ fault = "none"
    /\ UNCHANGED <<skind, codecvars, muxvars, fault, lookupvars, zonevars, zrrs,
                   rrvars>>

\* Write has returned w for the buffer b: the result is logged, and
\* go s.do(query) has started a goroutine that holds the query
Wrote(b, w) ==
    /\ writes' = Append(writes, [b |-> b, n |-> w.n, err |-> w.err])
    /\ inflight' = IF w.err = "none"
                   THEN Append(inflight, [query |-> w.msg, for |-> b])
                   ELSE inflight

\* Write(b) on the session
Write(b) ==
    /\ SessionStep
    /\ Len(writes) < MaxWrites
    /\ b \in (IF skind = "stream" THEN StreamBuffers ELSE PacketBuffers)
    /\ Wrote(b, IF skind = "stream" THEN streamSessionWrite(b)
                ELSE packetSessionWrite(b))
    /\ UNCHANGED <<rbuf, reads, recvd>>

\* a receive that leaves what it received with the sender
WithoutNone(s, i) == s

\* all but the i-th: the goroutine whose send was received has returned
Without(s, i) == SubSeq(s, 1, i - 1) \o SubSeq(s, i + 1, Len(s))

\* Read returns r: its bytes and its error are logged
ReadReturns(r) == reads' = Append(reads, [b |-> r.b, err |-> r.err])

\* session.recv in Read: the goroutine i sends what Client.do returned to
\* it, got, over msgerrc
Recv(i, got) ==
    /\ i \in 1..Len(inflight) /\ got \in clientDo(inflight[i].query)
    /\ inflight' = Without(inflight, i)
    /\ recvd' = Append(recvd, [msg |-> got.msg, err |-> got.err,
                               for |-> inflight[i].for])

\* Read(b) with a buffer of n bytes: a streamSession with bytes left in
\* s.rbuf hands them out, else recv is called.  streamSession.Read has a
\* value receiver, so what it assigns to s.rbuf is assigned to its own
\* copy of the session, and rbuf stays what it was
Read(n, i, got) ==
    /\ SessionStep
    /\ Len(reads) < MaxReads
    /\ IF skind = "stream" /\ Len(rbuf) > 0
       THEN ReadReturns(read(rbuf, n)) /\ UNCHANGED <<inflight, recvd>>
       ELSE /\ Recv(i, got)
            /\ ReadReturns(IF skind = "stream" THEN streamSessionRead(n, got)
                           ELSE packetSessionRead(n, got))
    /\ UNCHANGED <<rbuf, writes>>

SessionInit ==
    /\ skind \in {"stream", "packet"}
    /\ inflight = <<>> /\ rbuf = <<>>
    /\ reads = <<>> /\ recvd = <<>> /\ writes = <<>>
    /\ CodecIdle /\ LookupIdle /\ MuxIdle /\ ZoneIdle /\ RRSetIdle
    /\ fault = "none"

SessionNext ==
    \/ \E b \in StreamBuffers \cup PacketBuffers : Write(b)
    \/ \E n \in ReadSizes, i \in 1..MaxWrites,
          got \in clientDo(Query1) \cup clientDo(Query2) : Read(n, i, got)

SessionSpec == SessionInit /\ [][SessionNext]_vars

\* C30: after ServeDNS has sent its reply, every sub-writer goroutine it
\* spawned returns from Reply and terminates, whether the outer Reply
\* succeeded or returned an error: none stays blocked on replyc or recurc
C30_WritersReturn ==
    \A i \in 1..MaxQuestions :
        (Running /\ WellBehaved /\ outerReplies = 1 /\ i \in Writers)
            ~> (~Running \/ (i \in DOMAIN pc /\ pc[i] = "done"))

\* the bytes the first k calls of Read returned, and the frames of the
\* first k results that recv received without error
RECURSIVE BytesRead(_)
BytesRead(k) == IF k = 0 THEN <<>> ELSE BytesRead(k - 1) \o reads[k].b

RECURSIVE FramesRecvd(_)
FramesRecvd(k) ==
    IF k = 0 THEN <<>>
    ELSE FramesRecvd(k - 1)
         \o (IF recvd[k].err = "none" THEN Frame(AppendPack(recvd[k].msg).b)
             ELSE <<>>)

IsPrefix(s, t) == Len(s) <= Len(t) /\ SubSeq(t, 1, Len(s)) = s

\* C22: on a stream session the bytes that the calls of Read have
\* returned, one after the other, are the frames of the responses
\* delivered, length first and then the whole body, as far as they have
\* been read
C22_Stream ==
    skind = "stream" => IsPrefix(BytesRead(Len(reads)), FramesRecvd(Len(recvd)))

\* the buffer is one whole frame: a length and that many bytes, which
\* decode as a message
WholeFrame(b) ==
    /\ Len(b) >= 2
    /\ b[1] * 256 + b[2] = Len(b) - 2
    /\ MessageUnpack(SubSeq(b, 3, Len(b))).err = "none"

\* C23: streamSession.Write returns len(b) and no error for a whole frame
\* and for nothing else; for a buffer of less than 2 bytes or with a body
\* that is not as long as the length says it returns 0 and ErrShortWrite,
\* for a body that does not decode 0 and the error of Unpack; and every
\* query dispatched, or delivered to Read, stems from an accepted buffer
C23_WriteRejects ==
    skind = "stream" =>
        /\ \A k \in 1..Len(writes) :
               LET w == writes[k]
                   short == Len(w.b) < 2
                   long == ~short /\ w.b[1] * 256 + w.b[2] # Len(w.b) - 2
               IN  /\ WholeFrame(w.b) <=> (w.err = "none" /\ w.n = Len(w.b))
                   /\ (short \/ long) => (w.n = 0 /\ w.err = "ErrShortWrite")
                   /\ (~short /\ ~long /\ ~WholeFrame(w.b)) =>
                          /\ w.n = 0
                          /\ w.err = MessageUnpack(SubSeq(w.b, 3, Len(w.b))).err
        /\ \A k \in 1..Len(inflight) : WholeFrame(inflight[k].for)
        /\ \A k \in 1..Len(recvd) : WholeFrame(recvd[k].for)
        /\ Len(inflight) + Len(recvd)
             = Cardinality({k \in 1..Len(writes) : writes[k].err = "none"})

\* a frame whose length is one too large was refused, a whole frame was
\* accepted after it, and the result of its query was received
C23_Witness ==
    /\ skind = "stream" /\ Len(writes) = 2
    /\ Len(writes[1].b) > 2 /\ writes[1].err = "ErrShortWrite"
    /\ writes[2].err = "none" /\ writes[2].n = Len(writes[2].b)
    /\ Len(recvd) = 1 /\ recvd[1].for = writes[2].b

\* C24: a legal message that was packed, with or without compression, and
\* unpacked again is the message that was packed, and no byte is left over
C24_RoundTrip ==
    /\ (cjob.kind = "message" /\ cpc = "packed") => cout.err = "none"
    /\ (cjob.kind = "message" /\ cpc = "done") =>
           /\ cback.err = "none"
           /\ cback.m = cjob.m
           /\ cback.rest = <<>>

\* a message with two answers went through Pack with compression, which
\* emitted a pointer, and through Unpack
C24_Witness ==
    /\ cjob.kind = "message" /\ cpc = "done" /\ cjob.compress
    /\ Len(cjob.m.Questions) = 1 /\ Len(cjob.m.Answers) = 2
    /\ cjob.m.Answers[1].Rec.Type = TypeCNAME
    /\ \E i \in 13..Len(cout.b) : cout.b[i] = 192
    /\ cback.err = "none" /\ cback.m = cjob.m

\* C25: whenever packing succeeds, QDCOUNT, ANCOUNT, NSCOUNT and ARCOUNT of
\* the packed header are the lengths of the four sections, and packing
\* fails whenever one of the four sections holds more than 65535 entries
C25_CountExact ==
    /\ (cjob.kind = "header" /\ cpc # "ready") =>
           /\ cout.err = "none" =>
                  \A k \in 1..4 : GetUint16(cout.b, 3 + 2 * k) = cjob.n[k]
           /\ (\E k \in 1..4 : cjob.n[k] > 65535) => cout.err # "none"
    /\ (cjob.kind = "message" /\ cpc # "ready" /\ cout.err = "none") =>
           /\ GetUint16(cout.b, 5) = Len(cjob.m.Questions)
           /\ GetUint16(cout.b, 7) = Len(cjob.m.Answers)
           /\ GetUint16(cout.b, 9) = Len(cjob.m.Authorities)
           /\ GetUint16(cout.b, 11) = Len(cjob.m.Additionals)

\* the header fields fit their wire fields
InRange(m) == m.ID \in 0..65535 /\ m.OpCode \in 0..15 /\ m.RCode \in 0..15

\* the flags word of the wire format: QR, AA, TC, RD and RA at 0x8000,
\* 0x0400, 0x0200, 0x0100 and 0x0080, the opcode in bits 11-14, the rcode
\* in bits 0-3
FlagsWord(m) ==
    (IF m.Response THEN 32768 ELSE 0) + (IF m.Authoritative THEN 1024 ELSE 0)
    + (IF m.Truncated THEN 512 ELSE 0) + (IF m.RecursionDesired THEN 256 ELSE 0)
    + (IF m.RecursionAvailable THEN 128 ELSE 0)
    + m.OpCode * 2048 + m.RCode

\* C26: for a header whose ID, opcode and rcode fit their fields (and whose
\* section counts are accepted) packHeader writes the ID and the flags
\* word of the wire format and unpackHeader recovers the ID, the five
\* flags, the opcode and the rcode; for an ID, opcode or rcode out of
\* range packHeader fails with FieldOverflow and emits nothing
C26_Header ==
    (cjob.kind = "header" /\ cpc # "ready") =>
        IF InRange(cjob.m)
        THEN (\A k \in 1..3 : cjob.n[k] <= 65535) =>
                 /\ cout.err = "none"
                 /\ Len(cout.b) = 12
                 /\ GetUint16(cout.b, 1) = cjob.m.ID
                 /\ GetUint16(cout.b, 3) = FlagsWord(cjob.m)
                 /\ cpc = "done" => cback.err = "none" /\ cback.m = cjob.m
        ELSE cout.err = "FieldOverflow" /\ cout.b = <<>>

\* a response header with opcode 15, rcode 3 and RD set was packed and
\* unpacked again
C26_Witness ==
    /\ cjob.kind = "header" /\ cpc = "done"
    /\ cjob.m.ID = 16962 /\ cjob.m.OpCode = 15 /\ cjob.m.RCode = 3
    /\ cjob.m.Response /\ cjob.m.RecursionDesired /\ ~cjob.m.Truncated
    /\ cback.m = cjob.m

\* the position of the TTL field of the resource packed for the job, after
\* the name and the 4 octets of Type and Class
TTLAt == Len(compressorPack(<<>>, nameAB, NoCompressor).b) + 5

C28_RDLength ==
    (cjob.kind = "resource" /\ cpc # "ready" /\ cout.err = "none") =>
        GetUint16(cout.b, TTLAt + 4) = Len(cout.b) - (TTLAt + 5)

\* C29: Resource.Unpack on a buffer with the name "a." and a whole fixed
\* part: with fewer than RDLENGTH octets left it fails with ResourceLen,
\* else with a Type without constructor it fails with UnknownType, else
\* the record is unpacked from the RDLENGTH octets alone (an A record
\* needs 4 of them and a CNAME its name), ResTooLong is returned when the
\* record left octets of them unused, and on success the unpacking
\* resumes 10 + RDLENGTH octets after the name
C29_Window ==
    (cjob.kind = "unpack" /\ cpc = "done" /\ Len(cjob.b) >= 13) =>
        LET b == cjob.b
            rtype == GetUint16(b, 4)
            rdlen == GetUint16(b, 12)
            enough == Len(b) - 13 >= rdlen
            window == SubSeq(b, 14, 13 + rdlen)
        IN  /\ ~enough => cback.err = "ResourceLen"
            /\ (enough /\ rtype = 99) => cback.err = "UnknownType"
            /\ (enough /\ rtype = TypeA /\ rdlen < 4) =>
                   cback.err = "ResourceLen"
            /\ (enough /\ rtype = TypeA /\ rdlen = 4) =>
                   cback.err = "none" /\ cback.item.Rec = Rec(TypeA, window)
            /\ (enough /\ rtype = TypeA /\ rdlen > 4) =>
                   cback.err = "ResTooLong"
            /\ (enough /\ rtype = TypeCNAME /\ window = <<1, 98, 0>>) =>
                   cback.err = "none" /\ cback.item.Rec = CName(nameB)
            /\ (enough /\ rtype = TypeCNAME /\ window = <<1, 98, 0, 9>>) =>
                   cback.err = "ResTooLong"
            /\ cback.err = "none" =>
                   /\ cback.next = 4 + 10 + rdlen
                   /\ cback.item.Name = <<"a", ".">>

\* an A record was unpacked from a window of 4 octets that another octet
\* follows
C29_Witness ==
    /\ cjob.kind = "unpack" /\ cpc = "done"
    /\ Len(cjob.b) = 18 /\ GetUint16(cjob.b, 4) = TypeA
    /\ GetUint16(cjob.b, 12) = 4
    /\ cback.err = "none" /\ cback.item.Rec = Rec(TypeA, IPv4)
    /\ cback.next = 18

\* C31: for a query with no question ServeDNS spawns no sub-writer,
\* makes no upstream call and does not fault
C31_NoQuestions ==
    N = 0 => (fault = "none" /\ outerRecurs = 0 /\ DOMAIN pc = {0})

\* C32: a question whose Name is the Origin and whose Type is not SOA is
\* served without fault and adds no answer
C32_OriginQuestion ==
    [][ LET q == query.Questions[zi]
        IN  (ServesQuestion /\ q.Name = zone.Origin /\ q.Type # TypeSOA) =>
                /\ fault' = "none"
                /\ zmsg'.Answers = zmsg.Answers ]_vars

\* C33: a question whose Name is not a key of the RRSet followed by a
\* label separator and the Origin gets no answer from the records of the
\* zone (the SOA answered for the Origin itself is no record of the RRSet)
C33_LabelBoundary ==
    [][ LET q == query.Questions[zi]
        IN  (/\ ServesQuestion /\ KeysOf(q.Name) = {}
             /\ ~(q.Type = TypeSOA /\ q.Name = zone.Origin)) =>
                zmsg'.Answers = zmsg.Answers ]_vars

\* C34: with recursion desired, serving a question that is answered with a
\* CNAME whose target is not under the Origin does not fault, emits the
\* CNAME and emits no answer for that target
C34_TargetOutside ==
    [][ LET q == query.Questions[zi]
        IN  (/\ ServesQuestion /\ KeysOf(q.Name) # {}
             /\ query.RecursionDesired
             /\ ~TargetsInZone(Stored(q.Name, q.Type))) =>
                /\ fault' = "none"
                /\ zmsg'.Answers =
                       zmsg.Answers \o Chased(q, Stored(q.Name, q.Type), 1) ]_vars

\* C35: the answers ServeDNS has emitted for a question when its range
\* over the records of the key ends are, in order, the records of a
\* sequence that was stored under the key for the question's Type at some
\* moment since GetKey returned (no CNAME being chased)
C35_StoredSequence ==
    (zpc = "elem" /\ zrrs.j > Len(zrrs.arr) /\ ~query.RecursionDesired) =>
        SubSeq(zmsg.Answers, zrrs.from + 1, Len(zmsg.Answers)) \in
            { Named(query.Questions[zi].Name, recs) : recs \in zrrs.stored }

\* C36: no RRSet operation faults, and no caller that has left its
\* operation holds the lock
C36_NoFault ==
    /\ \A c \in Callers : call[c] # NoCall => fault = "none"
    /\ \A c \in Callers : rpc[c] \in {"unlocked", "changed", "done"} => l # c

\* the before hook of the operation op
BeforeHookOf(op) ==
    CASE op = "Clear" -> "beforeOnClear"
      [] op = "Set" -> "beforeOnSet"
      [] op = "SetKey" -> "beforeOnSetKey"
      [] op = "DeleteKey" -> "beforeOnDeleteKey"
      [] op = "DeleteRecordInKey" -> "beforeOnDeleteKeyInRecord"
      [] op = "AppendRecordInKey" -> "beforeOnAppendKeyInRecord"

\* C37: when a mutator has returned, each of its before hook,
\* beforeOnChange, its after hook and onChange that is registered has been
\* called exactly once for the call
C37_HooksOnce ==
    \A c \in Callers :
        (rpc[c] = "done" /\ call[c].op \in Mutators) =>
            \A h \in {BeforeHookOf(call[c].op), "beforeOnChange",
                       AfterHookOf(call[c].op), "onChange"} \cap hooks :
                Cardinality(CallsOf(h, c)) = 1

\* C38: every call of beforeOnChange and of onChange receives the event
\* tag of the operation that was called
C38_EventTag ==
    \A i \in 1..Len(hooklog) :
        hooklog[i].hook \in {"beforeOnChange", "onChange"} =>
            hooklog[i].event = EventOf(call[hooklog[i].c].op)

\* the calls of Write that returned no error
Accepted == { k \in 1..Len(writes) : writes[k].err = "none" }

\* the goroutines started for the buffer b that wait to send their result,
\* and the results received that stem from b
Waiting(b) == { k \in 1..Len(inflight) : inflight[k].for = b }
Received(b) == { k \in 1..Len(recvd) : recvd[k].for = b }

\* C39: every Read that has returned has received the result of one
\* goroutine, so that no more Reads have returned than Writes were
\* accepted; every accepted Write has one goroutine, which either waits to
\* send its result or has sent it to one Read and is gone; an error result
\* is what that Read returned; and once as many Reads have returned as
\* Writes were accepted no goroutine is left
C39_OneResultPerWrite ==
    skind # "none" =>
        /\ Len(reads) = Len(recvd)
        /\ Len(reads) <= Cardinality(Accepted)
        /\ \A b \in StreamBuffers \cup PacketBuffers :
               Cardinality(Waiting(b)) + Cardinality(Received(b))
                   = Cardinality({ k \in Accepted : writes[k].b = b })
        /\ \A k \in 1..Len(recvd) :
               recvd[k].err # "none" =>
                   reads[k].err = recvd[k].err /\ reads[k].b = <<>>
        /\ Len(reads) = Cardinality(Accepted) => inflight = <<>>

\* on a packet session two queries were written and two Reads have
\* returned, one with the reply and one with the error of the client
C39_Witness ==
    /\ skind = "packet" /\ Cardinality(Accepted) = 2 /\ Len(reads) = 2
    /\ inflight = <<>>
    /\ reads[1].err = "none" /\ reads[1].b = AppendPack(recvd[1].msg).b
    /\ reads[2].err = "timeout"
    /\ recvd[1].for # recvd[2].for

====
